---- MODULE Spec2Model ----
(***************************************************************************)
(* Overlay / modal lifecycle (BaseOverlay, Modal, GeolocationModal) and    *)
(* the favorites store (FavoriteHandler, AddFavorite) of the storefront    *)
(* theme, as state machines.                                               *)
(*                                                                         *)
(* One overlay element is modelled.  `ov` holds the element's fields, the  *)
(* listeners it has registered, and the effects (`trace`) of the handler   *)
(* that ran last.  Every action is one browser callback or one call made   *)
(* by outside code, run to completion, nested synchronous calls included.  *)
(***************************************************************************)
EXTENDS Integers, Sequences, FiniteSets, TLC

VARIABLES ov, fav, vid, mgr, foc, wish, roe, pg, car

vars == <<ov, fav, vid, mgr, foc, wish, roe, pg, car>>

(***************************************************************************)
(* Bounds                                                                  *)
(***************************************************************************)
\* number of times the element may be inserted into the document
MaxAttach == 2
\* longest favorites list
MaxFavorites == 3
\* longest favorites list found in localStorage at page load
MaxStored == 2
\* most <source> children of a video
MaxSources == 3
\* most promises and timers of one element outstanding at once
MaxAsync == 2

(***************************************************************************)
(* Values                                                                  *)
(***************************************************************************)
\* getAttribute() result for an absent attribute
NULL == "null"
\* values a present `open` attribute can carry
AttrValues == {"", "true"}
\* the three custom elements of the overlay family
Kinds == {"base-overlay", "modal-dialog", "geolocation-modal"}
\* where a click inside the overlay can land: the overlay element itself,
\* a node inside the content element, another descendant
ClickTargets == {"this", "content", "other"}
Keys == {"Escape", "Enter"}
EditorEvents == {"shopify:section:load", "shopify:section:select", "shopify:block:select",
                 "shopify:section:deselect", "shopify:block:deselect"}

Emit(s, e) == [s EXCEPT !.trace = Append(@, e)]

RECURSIVE Count(_, _)
Count(t, e) == IF t = <<>> THEN 0
               ELSE (IF Head(t) = e THEN 1 ELSE 0) + Count(Tail(t), e)

\* run handler h of state s n times (n listeners registered for one event)
RECURSIVE Repeat(_, _, _)
Repeat(h(_), s, n) == IF n = 0 THEN s ELSE Repeat(h, h(s), n - 1)

(***************************************************************************)
(* BaseOverlay                                                             *)
(***************************************************************************)
isOpen(s) == s.open # NULL

getContentElement(s) == s.hasContent

disableBodyScroll(s) == Emit([s EXCEPT !.locked = TRUE], "disableBodyScroll")

enableBodyScroll(s) == Emit([s EXCEPT !.locked = FALSE], "enableBodyScroll")

BaseOverlay_shouldCloseOnOutsideClick_Enabled(s) == TRUE

BaseOverlay_shouldCloseOnOutsideClick(s) == FALSE

Modal_shouldCloseOnOutsideClick(s) == TRUE

shouldCloseOnOutsideClick(s) ==
    IF s.kind = "base-overlay" THEN BaseOverlay_shouldCloseOnOutsideClick(s)
    ELSE Modal_shouldCloseOnOutsideClick(s)

RECURSIVE close(_)

\* the onDeactivate option handed to createFocusTrap
onDeactivate_NoClose(s) == s

onDeactivate(s) == IF isOpen(s) THEN close(s) ELSE s

\* focusTrap.activate(): no effect on a trap that is already active
activate(s) ==
    IF s.focusTrap = "active" THEN s
    ELSE Emit([s EXCEPT !.focusTrap = "active"], "focusTrap.activate")

\* focusTrap.deactivate(): no effect on an inactive trap; the trap is marked
\* inactive before its onDeactivate option runs
deactivate(s) ==
    IF s.focusTrap # "active" THEN s
    ELSE onDeactivate(Emit([s EXCEPT !.focusTrap = "inactive"], "focusTrap.deactivate"))

BaseOverlay_onOpen(s) == s

BaseOverlay_onClose(s) == s

\* aria-modal and role are set, then the trap, if there is one, is activated
Modal_onOpen(s) ==
    LET t == [s EXCEPT !.ariaModal = TRUE]
    IN  IF t.focusTrap # NULL THEN activate(t) ELSE t

Modal_onClose(s) ==
    LET t == [s EXCEPT !.ariaModal = FALSE]
    IN  IF t.focusTrap = "active" THEN deactivate(t) ELSE t

GeolocationModal_onClose(s) == [s EXCEPT !.sessionClosed = TRUE]

onOpen(s) ==
    LET t == Emit(s, "onOpen")
    IN  IF s.kind = "base-overlay" THEN BaseOverlay_onOpen(t) ELSE Modal_onOpen(t)

onClose(s) ==
    LET t == Emit(s, "onClose")
    IN  CASE s.kind = "base-overlay" -> BaseOverlay_onClose(t)
          [] s.kind = "modal-dialog" -> Modal_onClose(t)
          [] s.kind = "geolocation-modal" -> GeolocationModal_onClose(t)

_handleOpen(s) == Emit(onOpen(disableBodyScroll(s)), "overlay:open")

_handleClose_EventFirst(s) == onClose(enableBodyScroll(Emit(s, "overlay:close")))

_handleClose(s) == Emit(onClose(enableBodyScroll(s)), "overlay:close")

\* which handler attributeChangedCallback('open', oldValue, newValue) runs
attributeChangedCallback_AnyValue(s, oldValue, newValue) ==
    IF newValue # NULL THEN _handleOpen(s)
    ELSE IF oldValue # NULL THEN _handleClose(s)
    ELSE s

attributeChangedCallback(s, oldValue, newValue) ==
    IF newValue # NULL /\ oldValue = NULL THEN _handleOpen(s)
    ELSE IF newValue = NULL /\ oldValue # NULL THEN _handleClose(s)
    ELSE s

\* Element.setAttribute('open', v): the attribute is written, then the
\* callback of the observed attribute runs, also when the value is the same
setAttribute(s, v) == attributeChangedCallback([s EXCEPT !.open = v], s.open, v)

\* Element.removeAttribute('open'): nothing happens for an absent attribute
removeAttribute(s) ==
    IF s.open = NULL THEN s
    ELSE attributeChangedCallback([s EXCEPT !.open = NULL], s.open, NULL)

open_NoGuard(s) == setAttribute(s, "")

open_AlsoHandles(s) == IF isOpen(s) THEN s ELSE _handleOpen(setAttribute(s, ""))

open(s) == IF isOpen(s) THEN s ELSE setAttribute(s, "")

close(s) == IF ~isOpen(s) THEN s ELSE removeAttribute(s)

toggle(s) == IF isOpen(s) THEN close(s) ELSE open(s)

handleKeyUp_AnyKey(s) == IF isOpen(s) THEN close(s) ELSE s

handleKeyUp(s) == IF s.arg = "Escape" /\ isOpen(s) THEN close(s) ELSE s

\* content && !content.contains(evt.target) && evt.target === this
handleOverlayClick(s) ==
    IF getContentElement(s) /\ s.arg # "content" /\ s.arg = "this" THEN close(s) ELSE s

\* addFastClick(element, handler): the handler is registered and a cleanup
\* function that removes it is returned; `delegates` keeps one record per
\* registration, the returned index stands for the cleanup function
addFastClick(s, sel) ==
    [s EXCEPT !.delegates = Append(@, [sel |-> sel, live |-> TRUE, cleanups |-> 0])]

delegateClick(s, sel) == addFastClick(s, sel)

delegateClickDocument(s, sel) == addFastClick(s, sel)

\* invoking the cleanup function of registration i
cleanup(s, i) ==
    Emit([s EXCEPT !.delegates[i].live = FALSE, !.delegates[i].cleanups = @ + 1], "cleanup")

setupDelegatedToggle(s) ==
    LET t == delegateClickDocument(s, "toggle")
    IN  [t EXCEPT !.cleanupFns = Append(@, Len(t.delegates))]

setupToggles(s) == IF ~s.toggleAttribute THEN s ELSE setupDelegatedToggle(s)

setupDelegatedShowPage(s) ==
    LET t == delegateClick(s, "showPage")
    IN  [t EXCEPT !.cleanupFns = Append(@, Len(t.delegates))]

setupEventListeners(s) ==
    LET t == [s EXCEPT !.keyupListeners = @ + 1]
    IN  IF shouldCloseOnOutsideClick(t) THEN [t EXCEPT !.clickListeners = @ + 1] ELSE t

bindThemeEditorEvents(s) == [s EXCEPT !.editorListeners = @ + 1]

_init(s) ==
    LET t == setupEventListeners(setupDelegatedShowPage(setupToggles(s)))
    IN  IF t.designMode THEN bindThemeEditorEvents(t) ELSE t

RECURSIVE cleanupAll(_, _)
cleanupAll(s, fns) ==
    IF fns = <<>> THEN s ELSE cleanupAll(cleanup(s, Head(fns)), Tail(fns))

BaseOverlay_destroy(s) ==
    LET t == cleanupAll(close(s), s.cleanupFns)
    IN  [t EXCEPT !.cleanupFns = <<>>]

BaseOverlay_connectedCallback(s) == _init(s)

(***************************************************************************)
(* Modal                                                                   *)
(***************************************************************************)
\* a new trap replaces this.focusTrap; a replaced trap that is still active
\* stays active with nothing left to deactivate it
initFocusTrap(s) ==
    [s EXCEPT !.focusTrap = "inactive",
              !.orphanTraps = IF s.focusTrap = "active" THEN @ + 1 ELSE @]

Modal_connectedCallback(s) == initFocusTrap(BaseOverlay_connectedCallback(s))

Modal_destroy(s) ==
    BaseOverlay_destroy(IF s.focusTrap # NULL THEN deactivate(s) ELSE s)

(***************************************************************************)
(* GeolocationModal                                                        *)
(***************************************************************************)
\* init(): nothing once the prompt was dismissed in this session; the data
\* script is read once and removed, a second read throws
init(s) ==
    IF s.sessionClosed THEN s
    ELSE IF s.optionData # "script" THEN Emit(s, "throw")
    ELSE [s EXCEPT !.optionData = "read", !.geoListeners = @ + 1]

GeolocationModal_connectedCallback(s) == init(Modal_connectedCallback(s))

\* populateTemplate: the filled template is inserted before the template
\* node, which is then removed; a second call finds no parent node and throws
handleGeolocationRecommendation(s) ==
    IF s.arg # "option" THEN s
    ELSE IF s.contentTemplate # "template" THEN Emit(s, "throw")
    ELSE open(delegateClick([s EXCEPT !.contentTemplate = "removed"], "accept"))

onThemeEditorLoad(s) ==
    IF s.kind # "geolocation-modal" THEN s
    ELSE IF s.optionData # "read" \/ s.contentTemplate # "template" THEN Emit(s, "throw")
    ELSE [s EXCEPT !.contentTemplate = "removed"]

connectedCallback(s) ==
    CASE s.kind = "base-overlay" -> BaseOverlay_connectedCallback(s)
      [] s.kind = "modal-dialog" -> Modal_connectedCallback(s)
      [] s.kind = "geolocation-modal" -> GeolocationModal_connectedCallback(s)

destroy(s) == IF s.kind = "base-overlay" THEN BaseOverlay_destroy(s) ELSE Modal_destroy(s)

disconnectedCallback(s) == destroy(s)

\* one theme-editor listener set, for an event of this overlay's section
themeEditorListener(s) ==
    CASE s.arg = "shopify:section:load" -> onThemeEditorLoad(s)
      [] s.arg = "shopify:section:select" -> open(s)
      [] s.arg = "shopify:block:select" -> open(s)
      [] s.arg = "shopify:section:deselect" -> close(s)
      [] s.arg = "shopify:block:deselect" -> s

\* the document-level toggle delegates that are still registered
LiveToggles(s) ==
    Cardinality({i \in DOMAIN s.delegates :
                    s.delegates[i].sel = "toggle" /\ s.delegates[i].live})

(***************************************************************************)
(* The overlay as a state machine                                          *)
(***************************************************************************)
\* a handler starts: its name and input are recorded, the effect log is reset
Begin(s, op, arg) == [s EXCEPT !.last = op, !.arg = arg, !.trace = <<>>]

\* the element right after its constructor ran
Constructed(k, ta, dm, hc, sc) ==
    [kind |-> k, toggleAttribute |-> ta, designMode |-> dm, hasContent |-> hc,
     attached |-> FALSE, attachCount |-> 0, open |-> NULL, locked |-> FALSE,
     ariaModal |-> FALSE,
     focusTrap |-> NULL, orphanTraps |-> 0,
     keyupListeners |-> 0, clickListeners |-> 0,
     editorListeners |-> 0, geoListeners |-> 0,
     delegates |-> <<>>, cleanupFns |-> <<>>,
     sessionClosed |-> sc, optionData |-> "script", contentTemplate |-> "template",
     last |-> "constructor", arg |-> NULL, trace |-> <<>>]

OvInit ==
    \E k \in Kinds, ta \in BOOLEAN, dm \in BOOLEAN, hc \in BOOLEAN, sc \in BOOLEAN :
        /\ (k # "geolocation-modal" => ~sc)
        /\ ov = Constructed(k, ta, dm, hc, sc)

\* the element is inserted into the document
Attach ==
    /\ ~ov.attached
    /\ ov.attachCount < MaxAttach
    /\ ov' = connectedCallback(
                [Begin(ov, "connectedCallback", NULL)
                    EXCEPT !.attached = TRUE, !.attachCount = @ + 1])
    /\ UNCHANGED <<fav, vid, mgr, foc, wish, roe, pg, car>>

\* the element is removed from the document
Detach ==
    /\ ov.attached
    /\ ov' = disconnectedCallback(
                [Begin(ov, "disconnectedCallback", NULL) EXCEPT !.attached = FALSE])
    /\ UNCHANGED <<fav, vid, mgr, foc, wish, roe, pg, car>>

CallOpen ==
    /\ ov' = open(Begin(ov, "open", NULL))
    /\ UNCHANGED <<fav, vid, mgr, foc, wish, roe, pg, car>>

CallClose ==
    /\ ov' = close(Begin(ov, "close", NULL))
    /\ UNCHANGED <<fav, vid, mgr, foc, wish, roe, pg, car>>

\* outside code writes the attribute
ExternalSetAttribute ==
    /\ \E v \in AttrValues : ov' = setAttribute(Begin(ov, "setAttribute", v), v)
    /\ UNCHANGED <<fav, vid, mgr, foc, wish, roe, pg, car>>

\* outside code removes the attribute
ExternalRemoveAttribute ==
    /\ ov' = removeAttribute(Begin(ov, "removeAttribute", NULL))
    /\ UNCHANGED <<fav, vid, mgr, foc, wish, roe, pg, car>>

\* a keyup event reaches the element
KeyUp ==
    /\ \E k \in Keys :
          ov' = Repeat(handleKeyUp, Begin(ov, "keyup", k), ov.keyupListeners)
    /\ UNCHANGED <<fav, vid, mgr, foc, wish, roe, pg, car>>

\* a click lands on the element or one of its descendants
Click ==
    /\ \E tgt \in ClickTargets :
          /\ (tgt = "content" => ov.hasContent)
          /\ ov' = Repeat(handleOverlayClick, Begin(ov, "click", tgt), ov.clickListeners)
    /\ UNCHANGED <<fav, vid, mgr, foc, wish, roe, pg, car>>

\* a click lands on an element carrying the toggle attribute
ToggleClick ==
    /\ ov.toggleAttribute
    /\ ov' = Repeat(toggle, Begin(ov, "toggleClick", NULL), LiveToggles(ov))
    /\ UNCHANGED <<fav, vid, mgr, foc, wish, roe, pg, car>>

\* the theme editor dispatches a section/block event for this section
ThemeEditorEvent ==
    /\ ov.designMode
    /\ \E e \in EditorEvents :
          ov' = Repeat(themeEditorListener, Begin(ov, "themeEditor", e), ov.editorListeners)
    /\ UNCHANGED <<fav, vid, mgr, foc, wish, roe, pg, car>>

\* a geolocation-recommendation event; b: a redirect option other than the
\* current shop's was found for the recommended country
GeolocationRecommendation ==
    /\ ov.kind = "geolocation-modal"
    /\ \E b \in {"option", "none"} :
          ov' = Repeat(handleGeolocationRecommendation,
                       Begin(ov, "geolocation-recommendation", b), ov.geoListeners)
    /\ UNCHANGED <<fav, vid, mgr, foc, wish, roe, pg, car>>

\* the focus trap is deactivated by something other than the modal
TrapDeactivate ==
    /\ ov.focusTrap = "active"
    /\ ov' = deactivate(Begin(ov, "focusTrap.deactivate", NULL))
    /\ UNCHANGED <<fav, vid, mgr, foc, wish, roe, pg, car>>

(***************************************************************************)
(* Favorites: FavoriteHandler and the add-favorite element                 *)
(***************************************************************************)
FavHandles == {"a", "b"}
\* dataset.variantId of an add-favorite element; "" stands for a missing one
FavVariants == {"", "1", "2"}

\* the favoriteItem an add-favorite element builds in connectedCallback
favoriteItem(h, v) == IF v = "" THEN [handle |-> h] ELSE [handle |-> h, variantId |-> v]

FavItems == {favoriteItem(h, v) : h \in FavHandles, v \in FavVariants}

\* JSON.stringify of one item: its key/value pairs in insertion order
JSON_stringify(item) ==
    IF "variantId" \in DOMAIN item
    THEN <<"handle", item.handle, "variantId", item.variantId>>
    ELSE <<"handle", item.handle>>

\* JSON.parse of one serialized item
JSON_parse(str) ==
    IF Len(str) = 4 THEN [handle |-> str[2], variantId |-> str[4]] ELSE [handle |-> str[2]]

stringifyList(list) == [i \in 1..Len(list) |-> JSON_stringify(list[i])]

parseList(str) == [i \in 1..Len(str) |-> JSON_parse(str[i])]

\* localStorage.getItem('favorites'): null for an unset key, else the string
Unset == [present |-> FALSE, json |-> <<>>]

Stored(str) == [present |-> TRUE, json |-> str]

\* the list read from localStorage: empty when the key is unset
fetchFavorites(storage) == IF ~storage.present THEN <<>> ELSE parseList(storage.json)

updateLocalStorage(f) == [f EXCEPT !.storage = Stored(stringifyList(f.favorites))]

updateDisplayCount(f) ==
    [f EXCEPT !.count = Len(f.favorites), !.hidden = (Len(f.favorites) = 0)]

removeFavorite(f, item) ==
    LET keep(x) == x.handle # item.handle
    IN  updateDisplayCount(updateLocalStorage([f EXCEPT !.favorites = SelectSeq(@, keep)]))

addFavorite(f, item) ==
    updateDisplayCount(updateLocalStorage([f EXCEPT !.favorites = Append(@, item)]))

isFavorite(f, item) ==
    \E i \in 1..Len(f.favorites) : JSON_stringify(f.favorites[i]) = JSON_stringify(item)

\* the handler notes what it did, and what was persisted and displayed
\* before, for the last two clicks
Logged(f, op, item) ==
    LET e == [op |-> op, item |-> item, storage |-> f.storage, count |-> f.count]
    IN  [f EXCEPT !.log = IF Len(@) < 2 THEN Append(@, e) ELSE <<@[2], e>>]

handleClick(f, item) ==
    IF isFavorite(f, item) THEN removeFavorite(Logged(f, "remove", item), item)
    ELSE addFavorite(Logged(f, "add", item), item)

\* new FavoriteHandler(): the list is read from storage, the count displayed
FavoriteHandler(storage) ==
    updateDisplayCount([favorites |-> fetchFavorites(storage), storage |-> storage,
                        count |-> 0, hidden |-> TRUE, log |-> <<>>])

\* the lists with no repeated entry, the only ones clicks can build
RECURSIVE ListsUpTo(_)
ListsUpTo(n) ==
    IF n = 0 THEN {<<>>}
    ELSE LET shorter == ListsUpTo(n - 1)
         IN  shorter \cup {Append(l, x) : l \in {m \in shorter : Len(m) = n - 1}, x \in FavItems}

NoRepeat(list) == \A i, j \in 1..Len(list) : list[i] = list[j] => i = j

FavIdle == FavoriteHandler(Unset)

FavInit ==
    \E storage \in {Unset} \cup {Stored(stringifyList(l)) : l \in {m \in ListsUpTo(MaxStored) : NoRepeat(m)}} :
        fav = FavoriteHandler(storage)

\* a click on the add-favorite element of product h, variant v
FavoriteClick ==
    /\ \E item \in FavItems :
          /\ (~isFavorite(fav, item) => Len(fav.favorites) < MaxFavorites)
          /\ fav' = handleClick(fav, item)
    /\ UNCHANGED <<ov, vid, mgr, foc, wish, roe, pg, car>>

\* the page is loaded again: a new handler reads what was persisted
PageLoad ==
    /\ fav.log # <<>>
    /\ fav' = FavoriteHandler(fav.storage)
    /\ UNCHANGED <<ov, vid, mgr, foc, wish, roe, pg, car>>

FavNext ==
    \/ FavoriteClick
    \/ PageLoad

(***************************************************************************)
(* Wishlist                                                                *)
(***************************************************************************)
\* longest wishlist
MaxWishlist == 2

\* dataset.variantId of a wishlist button; a button without one is not set up
WishVariants == {"1", "2"}

WishItems == {[handle |-> h, variantId |-> v] : h \in FavHandles, v \in WishVariants}

\* localStorage under 'shopify-wishlist', parsed; [] for an unset key
getWishlist(w) == IF ~w.storage.present THEN <<>> ELSE parseList(w.storage.json)

\* initGrid: with a [grid-wishlist] on the page setupGrid starts and waits
\* for the product cards it fetches
initGrid(w) == IF w.hasGrid THEN [w EXCEPT !.pending = @ + 1] ELSE w

\* initButtons over every [button-wishlist] of the document: setupButtons
\* marks the buttons whose pair is in the wishlist and adds a click listener
\* to each, whether or not it has one
initButtons(w) ==
    Emit([w EXCEPT !.listeners = @ + 1,
                   !.active = @ \cup {x \in WishItems :
                                        \E i \in 1..Len(getWishlist(w)) : getWishlist(w)[i] = x}],
         "shopify-wishlist:init-buttons")

setWishlist_AlwaysStore(w, array) ==
    initGrid(Emit([w EXCEPT !.storage = Stored(stringifyList(array)), !.returned = array],
                  "shopify-wishlist:updated"))

\* a non-empty array is stored as JSON, an empty one removes the key; the
\* document listener of shopify-wishlist:updated runs initGrid; the array is
\* returned
setWishlist(w, array) ==
    initGrid(Emit([w EXCEPT !.storage = IF Len(array) > 0 THEN Stored(stringifyList(array))
                                         ELSE Unset,
                            !.returned = array],
                  "shopify-wishlist:updated"))

\* wishlist.findIndex(item => item.handle === handle && item.variantId === variantId):
\* 0 stands for -1
findIndex(wishlist, handle, variantId) ==
    LET hits == {i \in 1..Len(wishlist) :
                    wishlist[i].handle = handle /\ wishlist[i].variantId = variantId}
    IN  IF hits = {} THEN 0 ELSE CHOOSE i \in hits : \A j \in hits : i <= j

wishlistContains(w, handle, variantId) == findIndex(getWishlist(w), handle, variantId) # 0

updateWishlist_AlwaysPush(w, handle, variantId) ==
    setWishlist(w, Append(getWishlist(w), [handle |-> handle, variantId |-> variantId]))

updateWishlist(w, handle, variantId) ==
    LET wishlist == getWishlist(w)
        indexInWishlist == findIndex(wishlist, handle, variantId)
    IN  IF indexInWishlist = 0
        THEN setWishlist(w, Append(wishlist, [handle |-> handle, variantId |-> variantId]))
        ELSE setWishlist(w, [i \in 1..(Len(wishlist) - 1) |->
                                IF i < indexInWishlist THEN wishlist[i] ELSE wishlist[i + 1]])

resetWishlist(w) == setWishlist(w, <<>>)

\* one click listener of the button whose pair is w.arg
clickListener(w) ==
    LET u == updateWishlist(w, w.arg.handle, w.arg.variantId)
    IN  [u EXCEPT !.active = IF w.arg \in @ THEN @ \ {w.arg} ELSE @ \cup {w.arg}]

\* setupGrid after its fetches: the grid's content is replaced, then
\* initButtons runs over the whole document
setupGrid(w) ==
    Emit(initButtons([w EXCEPT !.pending = @ - 1]), "shopify-wishlist:init-product-grid")

\* the page after DOMContentLoaded, over what localStorage holds; the page
\* has a wishlist button per pair outside the grid, and a grid or not
Wishlist(storage, grid) ==
    initGrid(initButtons(
        [storage |-> storage, hasGrid |-> grid, listeners |-> 0, active |-> {},
         pending |-> 0, returned |-> <<>>,
         last |-> "DOMContentLoaded", arg |-> NULL, trace |-> <<>>]))

WishIdle == Wishlist(Unset, FALSE)

WishInit ==
    \E l \in {m \in ListsUpTo(MaxWishlist) : NoRepeat(m) /\ \A i \in 1..Len(m) : m[i] \in WishItems},
       grid \in BOOLEAN :
        wish = Wishlist(IF l = <<>> THEN Unset ELSE Stored(stringifyList(l)), grid)

\* a click on the wishlist button of product h, variant v: each of its
\* click listeners runs
WishlistClick ==
    /\ \E item \in WishItems :
          /\ (~wishlistContains(wish, item.handle, item.variantId) =>
                 Len(getWishlist(wish)) < MaxWishlist)
          /\ (wish.hasGrid => wish.pending + wish.listeners <= MaxAsync)
          /\ wish' = Repeat(clickListener,
                            Begin(wish, IF wishlistContains(wish, item.handle, item.variantId)
                                        THEN "remove" ELSE "add", item),
                            wish.listeners)
    /\ UNCHANGED <<ov, fav, vid, mgr, foc, roe, pg, car>>

\* the product cards of a waiting setupGrid have arrived
GridLoaded ==
    /\ wish.pending > 0
    /\ wish' = setupGrid(Begin(wish, "setupGrid", NULL))
    /\ UNCHANGED <<ov, fav, vid, mgr, foc, roe, pg, car>>

WishNext ==
    \/ WishlistClick
    \/ GridLoaded

\* the favorites and the wishlist of one page
ListsNext ==
    \/ FavoriteClick
    \/ PageLoad
    \/ WishlistClick

(***************************************************************************)
(* Modal: initial focus                                                    *)
(***************************************************************************)
\* most descendants of a modal
MaxChildren == 3

\* what a descendant of the modal is: an element carrying autofocus, the
\* .modal__close control, the .modal__content region, or none of these
ElementKinds == {"autofocus", "close", "content", "other"}

\* this.querySelector(list): the first descendant in document order that
\* matches any selector of the list; 0 stands for null
querySelector(doc, selectors) ==
    LET hits == {i \in 1..Len(doc) : doc[i] \in selectors}
    IN  IF hits = {} THEN 0 ELSE CHOOSE i \in hits : \A j \in hits : i <= j

\* the initialFocus option of the trap
initialFocus(doc) ==
    LET e == querySelector(doc, {"autofocus", "close", "content"})
    IN  IF e = 0 THEN "root" ELSE doc[e]

RECURSIVE Documents(_)
Documents(n) ==
    IF n = 0 THEN {<<>>}
    ELSE LET shorter == Documents(n - 1)
         IN  shorter \cup {Append(d, k) : d \in {m \in shorter : Len(m) = n - 1},
                                          k \in ElementKinds}

\* a modal with its descendants in document order
ModalDocument(doc) == [doc |-> doc, focus |-> "outside", last |-> "constructor"]

FocIdle == ModalDocument(<<>>)

FocusInit == \E doc \in Documents(MaxChildren) : foc = ModalDocument(doc)

\* the modal opens: onOpen activates the trap, which focuses initialFocus()
FocusTrapActivate ==
    /\ foc.focus = "outside"
    /\ foc' = [foc EXCEPT !.focus = initialFocus(foc.doc), !.last = "activate"]
    /\ UNCHANGED <<ov, fav, vid, mgr, wish, roe, pg, car>>

\* the modal closes: the trap returns focus to where it was
FocusTrapDeactivate ==
    /\ foc.focus # "outside"
    /\ foc' = [foc EXCEPT !.focus = "outside", !.last = "deactivate"]
    /\ UNCHANGED <<ov, fav, vid, mgr, wish, roe, pg, car>>

FocusNext ==
    \/ FocusTrapActivate
    \/ FocusTrapDeactivate

(***************************************************************************)
(* ReloadOnEvent                                                           *)
(***************************************************************************)
\* most reload events handled by one element
MaxReloads == 3

\* how fetchSectionHTML ends: the section's HTML; a rejected fetch; a body
\* that is not JSON; JSON without HTML for the section
FetchOutcomes == {"html", "rejected", "invalidJSON", "empty"}

\* what the fetched HTML holds: the section with this element in place, the
\* section without it, or no such section
Fetched == {"self", "noSelf", "noSection"}

\* window.Shopify.theme.sections.unload(this.container)
sections_unload(r) == Emit([r EXCEPT !.instance = "unloaded"], "unload")

\* window.Shopify.theme.sections.load(this.sectionType, this.container)
sections_load(r) == Emit([r EXCEPT !.instance = "loaded"], "load")

setNewHTML_LatestOnly(r, outcome, html, inner) ==
    IF outcome \in {"rejected", "invalidJSON"} THEN Emit(r, "console.error")
    ELSE IF outcome = "empty" THEN Emit(r, "console.error")
    ELSE IF html = "noSection" THEN Emit(r, "console.warn")
    ELSE IF html = "noSelf" THEN Emit(r, "console.warn")
    ELSE IF r.request < r.reloads \/ ~r.attached THEN r
    ELSE [r EXCEPT !.content = r.request, !.innerContainer = inner]

\* request: the trigger whose response this is; content: the trigger whose
\* response the element shows (0: the original markup); inner: the new
\* content holds a [data-section-type] container
setNewHTML(r, outcome, html, inner) ==
    IF outcome \in {"rejected", "invalidJSON"} THEN Emit(r, "console.error")
    ELSE IF outcome = "empty" THEN Emit(r, "console.error")
    ELSE IF html = "noSection" THEN Emit(r, "console.warn")
    ELSE IF html = "noSelf" THEN Emit(r, "console.warn")
    ELSE [r EXCEPT !.content = r.request, !.innerContainer = inner]

reload(r, outcome, html, inner) ==
    LET s == sections_unload(setNewHTML(r, outcome, html, inner))
    IN  IF ~s.innerContainer THEN Emit(s, "console.error")
        ELSE Emit(sections_load([s EXCEPT !.container = "inner"]), "reload-on-event:loaded")

\* event.detail.variant, when there is one, goes into the section URL; the
\* fetch is started and reload waits for it
handleChange(r, variant) ==
    [r EXCEPT !.urlVariant = IF variant # NULL THEN variant ELSE @,
              !.pending = @ \cup {r.reloads + 1}, !.reloads = @ + 1]

\* the element after its constructor: this.container is the first
\* [data-section-type] element of the section, inside this element or not
ReloadOnEvent(where, inner) ==
    [container |-> where, innerContainer |-> inner, instance |-> "loaded",
     content |-> 0, urlVariant |-> NULL, pending |-> {}, reloads |-> 0, request |-> 0,
     attached |-> TRUE,
     last |-> "constructor", arg |-> NULL, trace |-> <<>>]

RoeIdle == ReloadOnEvent("inner", TRUE)

ReloadInit ==
    \E where \in {"inner", "outer"}, inner \in BOOLEAN :
        /\ (where = "inner" => inner)
        /\ roe = ReloadOnEvent(where, inner)

\* the event named by data-event is dispatched on the document
ReloadEvent ==
    /\ roe.reloads < MaxReloads /\ Cardinality(roe.pending) < MaxAsync
    /\ \E variant \in {NULL, "v1", "v2"} :
          roe' = handleChange(Begin(roe, "handleChange", variant), variant)
    /\ UNCHANGED <<ov, fav, vid, mgr, foc, wish, pg, car>>

\* the fetch of one of the waiting reloads settles, in any order, and that
\* reload runs to its end
FetchSettles ==
    /\ \E id \in roe.pending, outcome \in FetchOutcomes, html \in Fetched, inner \in BOOLEAN :
          /\ (outcome # "html" => html = "self" /\ inner)
          /\ (html # "self" => inner)
          /\ roe' = reload([Begin(roe, "reload", <<outcome, html>>)
                               EXCEPT !.pending = @ \ {id}, !.request = id],
                           outcome, html, inner)
    /\ UNCHANGED <<ov, fav, vid, mgr, foc, wish, pg, car>>

\* the element is removed from the document; the class has no
\* disconnectedCallback and its document listener stays
RoeDetach ==
    /\ roe.attached
    /\ roe' = [Begin(roe, "detach", NULL) EXCEPT !.attached = FALSE]
    /\ UNCHANGED <<ov, fav, vid, mgr, foc, wish, pg, car>>

ReloadNext ==
    \/ ReloadEvent
    \/ FetchSettles
    \/ RoeDetach

(***************************************************************************)
(* VideoViewportManager                                                    *)
(***************************************************************************)
\* clearTimeout(state.timeoutId); state.timeoutId = null
clearTimer(m) ==
    IF m.timeoutId THEN Emit([m EXCEPT !.timers = @ - 1, !.timeoutId = FALSE], "clearTimeout")
    ELSE m

\* state.timeoutId = setTimeout(..., this.timeoutDuration): a timer whose id
\* is overwritten stays live
setTimer(m) == Emit([m EXCEPT !.timers = @ + 1, !.timeoutId = TRUE], "setTimeout")

\* video.play() / player.playVideo() / player.play(); ok: playback starts
resume(m, ok) == Emit(IF ok THEN [m EXCEPT !.paused = FALSE] ELSE m, "play")

\* video.pause() / player.pauseVideo()
suspend(m) == Emit([m EXCEPT !.paused = TRUE], "pause")

\* the element is one the scans pick up: a <video>, or a container with
\* data-video-provider
scanned(m) == m.present /\ (m.type = "html5" \/ m.hasProvider)

\* this.observer.observe(element); this.videoStates.set(element, {...})
track(m) ==
    Emit([m EXCEPT !.observed = TRUE, !.tracked = TRUE, !.timeoutId = FALSE,
                    !.inView = "unknown"], "observe")

observeVideos(m) ==
    IF ~m.isEnabled \/ ~m.observer THEN m
    ELSE IF scanned(m) THEN track(m) ELSE m

observeNewVideos_NoHasCheck(m) ==
    IF ~m.isEnabled \/ ~m.observer THEN m
    ELSE IF scanned(m) THEN track(m) ELSE m

observeNewVideos(m) ==
    IF ~m.isEnabled \/ ~m.observer THEN m
    ELSE IF scanned(m) /\ ~m.tracked THEN track(m) ELSE m

\* the anonymous youtube-player-ready / vimeo-player-ready listeners
onPlayerReady(m) ==
    LET p == [m EXCEPT !.player = TRUE]
    IN  IF ~p.tracked /\ p.observer THEN track(p) ELSE p

handleHTML5Video_NoResume(m, isIntersecting, ok) ==
    IF isIntersecting
    THEN clearTimer(m)
    ELSE IF ~m.muted /\ ~m.paused
         THEN setTimer([suspend(m) EXCEPT !.autoPaused = "true", !.graceElapsed = FALSE])
         ELSE m

handleHTML5Video(m, isIntersecting, ok) ==
    IF isIntersecting
    THEN LET c == clearTimer(m)
         IN  IF c.autoPaused = "true" \/ c.autoplay
             THEN [resume(c, ok) EXCEPT !.autoPaused = "false"]
             ELSE c
    ELSE IF ~m.muted /\ ~m.paused
         THEN setTimer([suspend(m) EXCEPT !.autoPaused = "true", !.graceElapsed = FALSE])
         ELSE m

handleExternalVideo_NoStateCheck(m, isIntersecting, ok) ==
    IF ~m.player THEN m
    ELSE IF isIntersecting
    THEN LET c == clearTimer(m)
         IN  IF c.autoPaused = "true"
             THEN [resume(c, ok) EXCEPT !.autoPaused = "false"]
             ELSE c
    ELSE IF m.type = "youtube"
         THEN setTimer([suspend(m) EXCEPT !.autoPaused = "true", !.graceElapsed = FALSE])
         ELSE Emit([m EXCEPT !.checks = @ + 1], "getPaused")

handleExternalVideo(m, isIntersecting, ok) ==
    IF ~m.player THEN m
    ELSE IF isIntersecting
    THEN LET c == clearTimer(m)
         IN  IF c.autoPaused = "true"
             THEN [resume(c, ok) EXCEPT !.autoPaused = "false"]
             ELSE c
    ELSE IF m.type = "youtube"
         THEN IF ~m.paused
              THEN setTimer([suspend(m) EXCEPT !.autoPaused = "true", !.graceElapsed = FALSE])
              ELSE m
         ELSE Emit([m EXCEPT !.checks = @ + 1], "getPaused")

VideoViewportManager_handleIntersection(m, isIntersecting, ok) ==
    IF ~m.isEnabled THEN m
    ELSE IF ~m.tracked THEN m
    ELSE IF m.type = "html5" THEN handleHTML5Video(m, isIntersecting, ok)
    ELSE handleExternalVideo(m, isIntersecting, ok)

Simple_handleIntersection(m, isIntersecting, ok) ==
    IF ~m.tracked THEN m
    ELSE IF isIntersecting
    THEN LET c == clearTimer(m)
         IN  IF c.autoPaused = "true"
             THEN [resume(c, ok) EXCEPT !.autoPaused = "false"]
             ELSE c
    ELSE IF ~m.muted /\ ~m.paused
         THEN setTimer([suspend(m) EXCEPT !.autoPaused = "true", !.graceElapsed = FALSE])
         ELSE m

\* clear the recorded timeouts, disconnect the observer, clear the map;
\* timers whose id was overwritten and promises still pending keep the state
\* object they captured
Simple_destroy(m) ==
    LET c == IF m.tracked THEN clearTimer(m) ELSE m
    IN  Emit([c EXCEPT !.observed = FALSE, !.tracked = FALSE, !.timeoutId = FALSE,
                       !.oldTimers = @ + c.timers, !.timers = 0,
                       !.oldChecks = @ + c.checks, !.checks = 0,
                       !.oldPauses = @ + c.pauses, !.pauses = 0,
                       !.destroyed = TRUE], "disconnect")

\* the same steps, then the player map is cleared and the manager disabled;
\* removeEventListener is given listenForExternalPlayers, not the listeners
\* that were added, so the player-ready listeners stay
VideoViewportManager_destroy(m) ==
    [Simple_destroy(m) EXCEPT !.player = FALSE, !.isEnabled = FALSE]

\* the manager right after its constructor ran init() over a page that
\* holds the element (present) or does not hold it yet
VideoViewportManager(kind, provider, here, mute, stopped, auto) ==
    observeVideos(
        [variant |-> kind[1], type |-> kind[2], hasProvider |-> provider,
         present |-> here, isEnabled |-> TRUE, observer |-> TRUE,
         observed |-> FALSE, tracked |-> FALSE, player |-> FALSE,
         timeoutId |-> FALSE, timers |-> 0, oldTimers |-> 0,
         checks |-> 0, pauses |-> 0, oldChecks |-> 0, oldPauses |-> 0,
         muted |-> mute, paused |-> stopped, autoPaused |-> "unset", autoplay |-> auto,
         inView |-> "unknown", graceElapsed |-> FALSE, destroyed |-> FALSE,
         last |-> "constructor", arg |-> NULL, trace |-> <<>>])

MgrIdle == VideoViewportManager(<<"full", "html5">>, FALSE, FALSE, TRUE, TRUE, FALSE)

ManagerInit ==
    \E kind \in {<<"full", "html5">>, <<"full", "youtube">>, <<"full", "vimeo">>,
                  <<"simple", "html5">>},
        provider, here, mute, stopped, auto \in BOOLEAN :
        /\ (provider => kind[2] # "html5")
        /\ (auto => kind[2] = "html5")
        /\ mgr = VideoViewportManager(kind, provider, here, mute, stopped, auto)

\* the element is added to the page after the manager was constructed
ElementAdded ==
    /\ ~mgr.present
    /\ mgr' = [Begin(mgr, "elementAdded", NULL) EXCEPT !.present = TRUE]
    /\ UNCHANGED <<ov, fav, vid, foc, wish, roe, pg, car>>

\* page code calls videoManager.observeNewVideos()
Rescan ==
    /\ mgr.variant = "full"
    /\ mgr' = observeNewVideos(Begin(mgr, "observeNewVideos", NULL))
    /\ UNCHANGED <<ov, fav, vid, foc, wish, roe, pg, car>>

\* the embedded player of the element announces itself
PlayerReady ==
    /\ mgr.variant = "full" /\ mgr.type # "html5" /\ mgr.present
    /\ mgr' = onPlayerReady(Begin(mgr, "playerReady", NULL))
    /\ UNCHANGED <<ov, fav, vid, foc, wish, roe, pg, car>>

\* the observer reports the element: isIntersecting is true on entering
\* view and when the 0.5 threshold is crossed while it stays visible, false
\* once it has left
Intersection ==
    /\ mgr.observed
    /\ \E isIntersecting, ok \in BOOLEAN :
          /\ ~isIntersecting =>
                 /\ mgr.inView # "out"
                 /\ mgr.checks + mgr.pauses + mgr.timers < MaxAsync
          /\ mgr' = LET b == [Begin(mgr, IF isIntersecting THEN "enter" ELSE "leave", NULL)
                                 EXCEPT !.inView = IF isIntersecting THEN "in" ELSE "out"]
                    IN  IF b.variant = "full"
                        THEN VideoViewportManager_handleIntersection(b, isIntersecting, ok)
                        ELSE Simple_handleIntersection(b, isIntersecting, ok)
    /\ UNCHANGED <<ov, fav, vid, foc, wish, roe, pg, car>>

\* a grace timer fires; old: it captured a state object that destroy()
\* discarded
TimerFires ==
    /\ \E old \in BOOLEAN :
          /\ (IF old THEN mgr.oldTimers ELSE mgr.timers) > 0
          /\ mgr' = IF old
                    THEN [Begin(mgr, "timer", "old") EXCEPT
                             !.oldTimers = @ - 1, !.autoPaused = "false"]
                    ELSE [Begin(mgr, "timer", NULL) EXCEPT
                             !.timers = @ - 1, !.timeoutId = FALSE,
                             !.autoPaused = "false", !.graceElapsed = TRUE]
    /\ UNCHANGED <<ov, fav, vid, foc, wish, roe, pg, car>>

\* player.getPaused() resolves: a playing player is sent pause(); old: the
\* promise was created before destroy()
GetPausedResolves ==
    /\ \E old \in BOOLEAN :
          /\ (IF old THEN mgr.oldChecks ELSE mgr.checks) > 0
          /\ mgr' = LET b == Begin(mgr, "getPaused.then", IF old THEN "old" ELSE NULL)
                        c == IF old THEN [b EXCEPT !.oldChecks = @ - 1]
                             ELSE [b EXCEPT !.checks = @ - 1]
                    IN  IF c.paused THEN c
                        ELSE IF old THEN Emit([c EXCEPT !.oldPauses = @ + 1], "pause")
                        ELSE Emit([c EXCEPT !.pauses = @ + 1], "pause")
    /\ UNCHANGED <<ov, fav, vid, foc, wish, roe, pg, car>>

\* player.pause() resolves: the player is paused, the element is flagged
\* and the grace timer is started
PauseResolves ==
    /\ \E old \in BOOLEAN :
          /\ (IF old THEN mgr.oldPauses ELSE mgr.pauses) > 0
          /\ mgr' = LET b == [Begin(mgr, "pause.then", IF old THEN "old" ELSE NULL) EXCEPT
                                 !.paused = TRUE, !.autoPaused = "true",
                                 !.graceElapsed = FALSE]
                    IN  IF old
                        THEN Emit([b EXCEPT !.oldPauses = @ - 1, !.oldTimers = @ + 1],
                                  "setTimeout")
                        ELSE setTimer([b EXCEPT !.pauses = @ - 1])
    /\ UNCHANGED <<ov, fav, vid, foc, wish, roe, pg, car>>

\* the user plays, pauses, mutes or unmutes the media
UserControl ==
    /\ mgr.present
    /\ \E c \in {"play", "pause", "mute"} :
          /\ (c = "play" => mgr.paused)
          /\ (c = "pause" => ~mgr.paused)
          /\ mgr' = [Begin(mgr, "user", c) EXCEPT
                        !.paused = IF c = "mute" THEN @ ELSE c = "pause",
                        !.muted = IF c = "mute" THEN ~@ ELSE @]
    /\ UNCHANGED <<ov, fav, vid, foc, wish, roe, pg, car>>

ManagerDestroy ==
    /\ ~mgr.destroyed
    /\ mgr' = LET b == Begin(mgr, "destroy", NULL)
              IN  IF b.variant = "full" THEN VideoViewportManager_destroy(b)
                  ELSE Simple_destroy(b)
    /\ UNCHANGED <<ov, fav, vid, foc, wish, roe, pg, car>>

ManagerNext ==
    \/ ElementAdded
    \/ Rescan
    \/ PlayerReady
    \/ Intersection
    \/ TimerFires
    \/ GetPausedResolves
    \/ PauseResolves
    \/ UserControl
    \/ ManagerDestroy

(***************************************************************************)
(* ResponsiveVideo                                                         *)
(***************************************************************************)
\* window.innerWidth
Widths == {500, 749, 750, 1000}

\* what the code reads from a <source media="..."> attribute: whether the
\* attribute is there, whether its text includes 'max-width' / 'min-width',
\* and the first run of digits in it (-1: none)
MaxWidth(b) == [has |-> TRUE, max |-> TRUE, min |-> FALSE, num |-> b]

MinWidth(b) == [has |-> TRUE, max |-> FALSE, min |-> TRUE, num |-> b]

NoMedia == [has |-> FALSE, max |-> FALSE, min |-> FALSE, num |-> -1]

MediaAttrs == {MaxWidth(749), MinWidth(500), MinWidth(750), NoMedia}

\* the src the markup gives the i-th <source>, and the <video> itself
Url(i) == <<"u1", "u2", "u3", "u4", "u5">>[i]

VideoUrl == "v0"

\* what reading video.src gives for src="": the document's own address
PageUrl == "page"

getLoadType(v) == IF v.lazyAttr \in {"dom", "load", "manual"} THEN v.lazyAttr ELSE NULL

autoplay(v) == v.autoplayAttr

\* the src property of the i-th <source>: "" without the attribute
sourceSrc(v, i) == IF v.srcAttrs[i] = NULL THEN "" ELSE v.srcAttrs[i]

\* the src property of the <video>
videoSrc(v) ==
    IF v.videoSrc = NULL THEN "" ELSE IF v.videoSrc = "" THEN PageUrl ELSE v.videoSrc

\* video.load(): the element is paused while the new resource is selected
load(v) == Emit([v EXCEPT !.paused = TRUE], "load")

\* how a call of video.play() ends: its promise resolves; it is rejected at
\* once because playback is not allowed; or playback is started and the
\* promise is rejected later because the resource cannot be played
PlayOutcomes == {"resolved", "NotAllowedError", "NotSupportedError"}

\* video.play(); unless it is refused at once the element leaves the paused
\* state and its play event runs handleVideoPlay
play(v, ok, tag) ==
    Emit(IF ok # "NotAllowedError" THEN [v EXCEPT !.paused = FALSE, !.isPlaying = TRUE]
          ELSE v, tag)

\* video.pause(); the pause event runs handleVideoPause
pause(v) == Emit([v EXCEPT !.paused = TRUE, !.isPlaying = FALSE], "pause")

deferVideoSources(v) ==
    IF ~v.isEnabled THEN v
    ELSE LET kept == SelectSeq([i \in 1..Len(v.srcAttrs) |-> i],
                               LAMBDA i : sourceSrc(v, i) # "")
         IN  load([v EXCEPT
                     !.originalSources = [set |-> TRUE, items |-> kept],
                     !.originalVideoSrc = IF videoSrc(v) # "" THEN v.videoSrc ELSE @,
                     !.videoSrc = IF videoSrc(v) # "" THEN NULL ELSE @,
                     !.originalPoster = IF v.poster THEN TRUE ELSE @,
                     !.poster = FALSE,
                     !.srcAttrs = [i \in 1..Len(v.srcAttrs) |-> NULL]])

restoreVideoSources(v) ==
    IF ~v.isEnabled THEN v
    ELSE load([v EXCEPT
                 !.videoSrc = IF v.originalVideoSrc # NULL THEN v.originalVideoSrc ELSE @,
                 !.poster = IF v.originalPoster THEN TRUE ELSE @,
                 !.srcAttrs = [i \in 1..Len(v.srcAttrs) |->
                                  IF \E k \in 1..Len(v.originalSources.items) :
                                        v.originalSources.items[k] = i
                                  THEN Url(i) ELSE v.srcAttrs[i]]])

\* Array.prototype.find over the sources: the first index that passes, 0 if none
find(pass) ==
    IF \E i \in 1..Len(pass) : pass[i]
    THEN CHOOSE i \in 1..Len(pass) : pass[i] /\ \A j \in 1..(i - 1) : ~pass[j]
    ELSE 0

getActiveSource_MinFirst(v) ==
    IF Len(v.sources) = 0 \/ ~v.isEnabled THEN 0
    ELSE LET n == Len(v.sources)
             mobileSource == find([i \in 1..n |->
                 v.sources[i].has /\ v.sources[i].max /\ v.sources[i].num >= 0
                 /\ v.width <= v.sources[i].num])
             largeSource == find([i \in 1..n |->
                 v.sources[i].has /\ v.sources[i].min /\ v.sources[i].num >= 0
                 /\ v.width >= v.sources[i].num])
             default == find([i \in 1..n |-> ~v.sources[i].has])
         IN  IF largeSource # 0 THEN largeSource
             ELSE IF mobileSource # 0 THEN mobileSource
             ELSE IF default # 0 THEN default
             ELSE 1

\* the index of the active <source>, 0 for null
getActiveSource(v) ==
    IF Len(v.sources) = 0 \/ ~v.isEnabled THEN 0
    ELSE LET n == Len(v.sources)
             mobileSource == find([i \in 1..n |->
                 v.sources[i].has /\ v.sources[i].max /\ v.sources[i].num >= 0
                 /\ v.width <= v.sources[i].num])
             largeSource == find([i \in 1..n |->
                 v.sources[i].has /\ v.sources[i].min /\ v.sources[i].num >= 0
                 /\ v.width >= v.sources[i].num])
             default == find([i \in 1..n |-> ~v.sources[i].has])
         IN  IF mobileSource # 0 THEN mobileSource
             ELSE IF largeSource # 0 THEN largeSource
             ELSE IF default # 0 THEN default
             ELSE 1

setInitialSource_NoGuard(v) ==
    LET r == IF v.originalSources.set \/ v.originalVideoSrc # NULL
             THEN restoreVideoSources(v) ELSE v
        a == getActiveSource(r)
    IN  IF a = 0 THEN r
        ELSE load([r EXCEPT !.videoSrc = sourceSrc(r, a),
                            !.currentSource = sourceSrc(r, a),
                            !.isLoaded = TRUE])

setInitialSource(v) ==
    IF v.isLoaded \/ ~v.isEnabled THEN v
    ELSE LET r == IF v.originalSources.set \/ v.originalVideoSrc # NULL
                  THEN restoreVideoSources(v) ELSE v
             a == getActiveSource(r)
         IN  IF a = 0 THEN r
             ELSE load([r EXCEPT !.videoSrc = sourceSrc(r, a),
                                 !.currentSource = sourceSrc(r, a),
                                 !.isLoaded = TRUE])

updateSourceBasedOnViewport_AlwaysPlay(v, ok) ==
    IF ~v.isEnabled THEN v
    ELSE LET a == getActiveSource(v)
         IN  IF a = 0 THEN v
             ELSE IF v.currentSource = sourceSrc(v, a) THEN v
             ELSE play(load([v EXCEPT !.videoSrc = sourceSrc(v, a),
                                      !.currentSource = sourceSrc(v, a),
                                      !.videoShown = FALSE]), ok, "play")

updateSourceBasedOnViewport(v, ok) ==
    IF ~v.isEnabled THEN v
    ELSE LET a == getActiveSource(v)
         IN  IF a = 0 THEN v
             ELSE IF v.currentSource = sourceSrc(v, a) THEN v
             ELSE LET wasPlaying == ~v.paused
                      l == load([v EXCEPT !.videoSrc = sourceSrc(v, a),
                                          !.currentSource = sourceSrc(v, a),
                                          !.videoShown = FALSE])
                  IN  IF wasPlaying THEN play(l, ok, "play") ELSE l

togglePlay(v, ok) ==
    IF ~v.isEnabled THEN v
    ELSE IF v.paused
    THEN IF videoSrc(v) = ""
         THEN LET a == getActiveSource(v)
              IN  IF a = 0 THEN v
                  ELSE play(load([v EXCEPT !.videoSrc = sourceSrc(v, a)]), ok, "play")
         ELSE play(v, ok, "play")
    ELSE pause(v)

toggleSound(v) ==
    IF ~v.isEnabled THEN v
    ELSE Emit([v EXCEPT !.muted = ~v.muted, !.isMuted = ~v.muted], "toggleSound")

handleWrapperClick_NoSoundCheck(v, target, ok) ==
    IF ~v.isEnabled THEN v ELSE togglePlay(v, ok)

handleWrapperClick(v, target, ok) ==
    IF ~v.isEnabled THEN v
    ELSE IF target = "soundToggle" THEN v
    ELSE togglePlay(v, ok)

\* the synchronous part of attemptAutoplay, up to its first await
attemptAutoplay(v, visible) ==
    IF ~v.isEnabled THEN v
    ELSE LET t == Emit([v EXCEPT !.autoplayAttempted = TRUE, !.attempts = @ + 1],
                        "attemptAutoplay")
         IN  IF ~visible THEN t
             ELSE [t EXCEPT !.muted = TRUE, !.autoplayPc = "wait100"]

handleVideoLoadedData_NoCheck(v, visible) ==
    IF autoplay(v) THEN attemptAutoplay(v, visible) ELSE v

handleVideoLoadedData(v, visible) ==
    IF autoplay(v) /\ ~v.autoplayAttempted THEN attemptAutoplay(v, visible) ELSE v

handleVideoLoaded(v, visible) ==
    IF ~v.isEnabled THEN v
    ELSE LET t == [v EXCEPT !.videoShown = TRUE]
         IN  IF autoplay(t) /\ ~t.autoplayAttempted THEN attemptAutoplay(t, visible) ELSE t

\* clearTimeout(this.resizeTimeout): cancels the timer the field names when
\* that timer is still pending, and does nothing for a stale or unset id
clearResizeTimeout(v) ==
    IF v.resizeTimeout THEN [v EXCEPT !.resizeTimeout = FALSE, !.resizeTimers = @ - 1]
    ELSE v

\* the debounce delay in milliseconds
ResizeDelay == 150

handleResize_NoClear(v) ==
    IF ~v.isEnabled THEN v
    ELSE [v EXCEPT !.resizeTimeout = TRUE, !.resizeTimers = @ + 1,
                   !.resizeDelay = ResizeDelay]

\* resizeTimeout: the timer this.resizeTimeout names is pending;
\* resizeTimers: the debounce callbacks that are pending
handleResize(v) ==
    IF ~v.isEnabled THEN v
    ELSE [clearResizeTimeout(v) EXCEPT !.resizeTimeout = TRUE, !.resizeTimers = @ + 1,
                                       !.resizeDelay = ResizeDelay]

\* afterCallstack(fn): fn runs once the current call stack has unwound
afterCallstack(v) == [v EXCEPT !.pendingInitial = TRUE, !.triggered = TRUE]

loadOnDOMReady(v) ==
    IF ~v.isEnabled THEN v
    ELSE IF v.readyState # "loading" THEN afterCallstack(v)
    ELSE [v EXCEPT !.domListener = TRUE]

loadOnWindowLoad(v) ==
    IF ~v.isEnabled THEN v
    ELSE IF v.readyState = "complete" THEN afterCallstack(v)
    ELSE [v EXCEPT !.loadListener = TRUE]

handleLoadType(v) ==
    IF ~v.isEnabled THEN v
    ELSE CASE v.lazyType = "dom" -> loadOnDOMReady(v)
           [] v.lazyType = "load" -> loadOnWindowLoad(v)
           [] v.lazyType = "manual" -> v
           [] OTHER -> setInitialSource(v)

setupElements(v) ==
    IF ~v.isEnabled THEN v
    ELSE LET a == IF autoplay(v) THEN [v EXCEPT !.datasetAutoplay = TRUE, !.muted = TRUE]
                  ELSE v
             d == IF a.lazyType # NULL THEN deferVideoSources(a) ELSE a
         IN  [d EXCEPT !.videoShown = FALSE]

bindEvents(v) == IF ~v.isEnabled THEN v ELSE [v EXCEPT !.listeners = TRUE]

setupObservers(v) == IF ~v.isEnabled THEN v ELSE [v EXCEPT !.resizeObserver = TRUE]

ResponsiveVideo_connectedCallback(v) ==
    handleLoadType(setupObservers(bindEvents(setupElements(
        [v EXCEPT !.lazyType = getLoadType(v)]))))

\* the handlers stay registered (removeEventListener is given the unbound
\* methods) but test isEnabled
ResponsiveVideo_destroy(v) ==
    [clearResizeTimeout(v) EXCEPT !.resizeObserver = FALSE, !.isEnabled = FALSE]

\* the element is selected by 'responsive-video[data-load-type="manual"]'
loadManualVideos(v) ==
    IF v.loadTypeAttr = "manual" /\ ~v.isLoaded THEN setInitialSource(v) ELSE v

(***************************************************************************)
(* The responsive video as a state machine                                 *)
(***************************************************************************)
\* the element as parsed from the markup, before connectedCallback
VideoElement(lazy, loadType, auto, srcs, vsrc, w, rs) ==
    [lazyAttr |-> lazy, loadTypeAttr |-> loadType, autoplayAttr |-> auto,
     sources |-> srcs, srcAttrs |-> [i \in 1..Len(srcs) |-> Url(i)],
     videoSrc |-> vsrc, poster |-> TRUE,
     paused |-> TRUE, muted |-> FALSE, datasetAutoplay |-> FALSE, videoShown |-> TRUE,
     isMuted |-> TRUE, isPlaying |-> FALSE, resizeObserver |-> FALSE,
     currentSource |-> NULL, autoplayAttempted |-> FALSE, lazyType |-> NULL,
     isLoaded |-> FALSE, isEnabled |-> TRUE,
     originalSources |-> [set |-> FALSE, items |-> <<>>],
     originalVideoSrc |-> NULL, originalPoster |-> FALSE,
     resizeTimeout |-> FALSE, resizeTimers |-> 0, resizeDelay |-> 0,
     listeners |-> FALSE,
     domListener |-> FALSE, loadListener |-> FALSE, pendingInitial |-> FALSE,
     autoplayPc |-> "idle", attempts |-> 0, autoplayPlays |-> 0,
     width |-> w, readyState |-> rs, attached |-> FALSE, attachCount |-> 0,
     triggered |-> FALSE,
     last |-> "constructor", arg |-> NULL, trace |-> <<>>]

VidIdle == VideoElement(NULL, NULL, FALSE, <<NoMedia>>, NULL, 1000, "complete")

VideoInit ==
    \E lazy \in {NULL, "dom", "load", "manual"}, lt \in {NULL, "manual"},
       auto \in BOOLEAN, srcs \in {<<>>, <<NoMedia>>, <<MaxWidth(749), MinWidth(750)>>},
       vsrc \in {NULL, VideoUrl}, w \in {1000},
       rs \in {"loading", "interactive", "complete"} :
        /\ (lt = "manual" => lazy \in {NULL, "manual"})
        /\ (srcs = <<>> => vsrc = VideoUrl)
        /\ (srcs # <<>> => vsrc = NULL)
        /\ vid = VideoElement(lazy, lt, auto, srcs, vsrc, w, rs)

VAttach ==
    /\ ~vid.attached /\ vid.attachCount < MaxAttach
    /\ vid' = ResponsiveVideo_connectedCallback(
                 [Begin(vid, "connectedCallback", NULL)
                     EXCEPT !.attached = TRUE, !.attachCount = @ + 1])
    /\ UNCHANGED <<ov, fav, mgr, foc, wish, roe, pg, car>>

VDetach ==
    /\ vid.attached
    /\ vid' = ResponsiveVideo_destroy(
                 [Begin(vid, "disconnectedCallback", NULL) EXCEPT !.attached = FALSE])
    /\ UNCHANGED <<ov, fav, mgr, foc, wish, roe, pg, car>>

\* the document finishes parsing (DOMContentLoaded), then the window loads
\* (load); the listener the element registered for the event runs
ReadyStateChange ==
    /\ vid.readyState # "complete"
    /\ vid' = LET dom == vid.readyState = "loading"
                  t == [Begin(vid, IF dom THEN "DOMContentLoaded" ELSE "load", NULL)
                           EXCEPT !.readyState = IF dom THEN "interactive" ELSE "complete"]
              IN  IF (IF dom THEN t.domListener ELSE t.loadListener)
                  THEN afterCallstack(t) ELSE t
    /\ UNCHANGED <<ov, fav, mgr, foc, wish, roe, pg, car>>

\* the callback handed to afterCallstack runs
AfterCallstack ==
    /\ vid.pendingInitial
    /\ vid' = setInitialSource(
                 [Begin(vid, "afterCallstack", NULL) EXCEPT !.pendingInitial = FALSE])
    /\ UNCHANGED <<ov, fav, mgr, foc, wish, roe, pg, car>>

\* outside code calls loadManualVideos on a container holding the element
\* a script calls element.setInitialSource() itself; elements.video is only set
\* by the first connectedCallback, and without it the method returns
SetInitialSource ==
    /\ vid' = LET t == Begin(vid, "setInitialSource", NULL)
              IN  IF t.attachCount = 0 THEN t ELSE setInitialSource(t)
    /\ UNCHANGED <<ov, fav, mgr, foc, wish, roe, pg, car>>

LoadManualVideos ==
    /\ vid.attached
    /\ vid' = loadManualVideos(
                 [Begin(vid, "loadManualVideos", NULL) EXCEPT !.triggered = TRUE])
    /\ UNCHANGED <<ov, fav, mgr, foc, wish, roe, pg, car>>

\* the resize observer reports (also once right after observe())
VResize ==
    /\ vid.resizeObserver
    /\ vid.resizeTimers < MaxAsync
    /\ \E w \in Widths :
          vid' = handleResize([Begin(vid, "resize", w) EXCEPT !.width = w])
    /\ UNCHANGED <<ov, fav, mgr, foc, wish, roe, pg, car>>

\* the 150 ms debounce timer fires
VResizeTimeout ==
    /\ vid.resizeTimers > 0
    /\ \E ok \in PlayOutcomes :
          vid' = updateSourceBasedOnViewport(
                    [Begin(vid, "resizeTimeout", NULL)
                        EXCEPT !.resizeTimers = @ - 1,
                               !.resizeTimeout = vid.resizeTimers > 1], ok)
    /\ UNCHANGED <<ov, fav, mgr, foc, wish, roe, pg, car>>

\* a click inside the wrapper: on the sound toggle (its own listener runs
\* first, then the wrapper's) or anywhere else
VClick ==
    /\ vid.listeners /\ vid.attached
    /\ \E target \in {"video", "soundToggle"}, ok \in PlayOutcomes :
          vid' = LET b == Begin(vid, "click", target)
                     s == IF target = "soundToggle" THEN toggleSound(b) ELSE b
                 IN  handleWrapperClick(s, target, ok)
    /\ UNCHANGED <<ov, fav, mgr, foc, wish, roe, pg, car>>

\* canplay / loadeddata of a loaded resource; visible: the element's box
\* overlaps the viewport
MediaEvent ==
    /\ vid.listeners
    /\ vid.videoSrc \notin {NULL, ""}
    /\ \E e \in {"canplay", "loadeddata"}, visible \in BOOLEAN :
          vid' = LET b == Begin(vid, e, visible)
                 IN  IF e = "canplay" THEN handleVideoLoaded(b, visible)
                     ELSE handleVideoLoadedData(b, visible)
    /\ UNCHANGED <<ov, fav, mgr, foc, wish, roe, pg, car>>

\* attemptAutoplay resumes after a delay: play() is called and its promise
\* settles
AutoplayResume ==
    /\ vid.autoplayPc \in {"wait100", "wait1000"}
    /\ \E ok \in PlayOutcomes :
          vid' = LET b == [Begin(vid, "autoplayTimer", vid.autoplayPc)
                              EXCEPT !.autoplayPlays = @ + 1]
                     p == Emit(play(b, ok, "autoplay.play"), ok)
                 IN  [p EXCEPT !.autoplayPc =
                         IF ok = "resolved" \/ vid.autoplayPc = "wait1000" THEN "done" ELSE "wait1000"]
    /\ UNCHANGED <<ov, fav, mgr, foc, wish, roe, pg, car>>

VideoNext ==
    \/ VAttach
    \/ VDetach
    \/ ReadyStateChange
    \/ AfterCallstack
    \/ LoadManualVideos
    \/ VResize
    \/ VResizeTimeout
    \/ VClick
    \/ MediaEvent
    \/ AutoplayResume

OvIdle == Constructed("base-overlay", FALSE, FALSE, FALSE, FALSE)

(***************************************************************************)
(* BaseOverlay pages                                                       *)
(***************************************************************************)
\* most [data-page] elements inside one overlay
MaxPages == 3

\* data-page values that occur in the overlay
PageNames == {"intro", "details"}

\* values a caller or a data-show-page attribute can name
PageArgs == PageNames \cup {"missing"}

\* every list of at most n [data-page] elements, in document order, each
\* with or without the js-hidden class
RECURSIVE PageLists(_)
PageLists(n) ==
    IF n = 0 THEN {<<>>}
    ELSE LET S == PageLists(n - 1)
         IN  S \cup {Append(l, [page |-> p, hidden |-> h]) :
                        l \in {x \in S : Len(x) = n - 1}, p \in PageNames, h \in BOOLEAN}

\* this.querySelector('[data-page="page"]'): the first match in document
\* order, 0 for null
querySelectorPage(pages, page) ==
    IF \E i \in 1..Len(pages) : pages[i].page = page
    THEN CHOOSE i \in 1..Len(pages) :
             /\ pages[i].page = page
             /\ \A j \in 1..(i - 1) : pages[j].page # page
    ELSE 0

Overlay(pages) ==
    [pages |-> pages, thrown |-> FALSE, defaultPrevented |-> FALSE, inside |-> FALSE,
     last |-> "constructor", arg |-> NULL, trace |-> <<>>]

showPage_HideFirst(p, page) ==
    LET showingPageEl == querySelectorPage(p.pages, page)
        h == [p EXCEPT !.pages = [i \in 1..Len(p.pages) |->
                                     [p.pages[i] EXCEPT !.hidden = TRUE]]]
    IN  IF showingPageEl = 0 THEN [h EXCEPT !.thrown = TRUE]
        ELSE [h EXCEPT !.pages[showingPageEl].hidden = FALSE]

showPage(p, page) ==
    LET showingPageEl == querySelectorPage(p.pages, page)
    IN  IF showingPageEl = 0 THEN [p EXCEPT !.thrown = TRUE]
        ELSE [p EXCEPT !.pages = [i \in 1..Len(p.pages) |->
                                     [p.pages[i] EXCEPT !.hidden = (i # showingPageEl)]]]

PgBegin(p, op, arg) ==
    [Begin(p, op, arg) EXCEPT !.thrown = FALSE, !.defaultPrevented = FALSE,
                              !.inside = FALSE]

PgIdle == Overlay(<<>>)

PagesInit == \E pages \in PageLists(MaxPages) : pg = Overlay(pages)

\* page code calls overlay.showPage(page)
ShowPage ==
    /\ \E page \in PageArgs : pg' = showPage(PgBegin(pg, "showPage", page), page)
    /\ UNCHANGED <<ov, fav, vid, mgr, foc, wish, roe, car>>

\* a click on a [data-show-page] element, inside this overlay or not
ShowPageClick ==
    /\ \E page \in PageArgs, inside \in BOOLEAN :
          pg' = LET b == [PgBegin(pg, "click", page) EXCEPT !.inside = inside]
                IN  IF ~inside THEN b
                    ELSE showPage([b EXCEPT !.defaultPrevented = TRUE], page)
    /\ UNCHANGED <<ov, fav, vid, mgr, foc, wish, roe, car>>

PagesNext == ShowPage \/ ShowPageClick

(***************************************************************************)
(* Carousel                                                                *)
(***************************************************************************)
\* most calls of one handle's destroy()
MaxDestroy == 2

\* Carousel(node, options): container is where the .swiper element is (the
\* node itself, a descendant, or nowhere); without one no handle is returned
\* and the slider module is not imported
Carousel(variant, container, useNav, usePagination, navOption) ==
    [variant |-> variant, container |-> container, useNav |-> useNav,
     usePagination |-> usePagination, navOption |-> navOption,
     handle |-> container # "none",
     import |-> IF container = "none" THEN "none" ELSE "pending",
     carousel |-> "undefined", events |-> 0, listening |-> FALSE, modules |-> {},
     overflowTimers |-> 0, hasOverflow |-> FALSE, destroyCalls |-> 0,
     last |-> "Carousel", arg |-> NULL, trace |-> <<>>]

\* handleOverflow: the class is adjusted in a zero-delay timeout
handleOverflow(c) == Emit([c EXCEPT !.overflowTimers = @ + 1], "setTimeout")

\* the callback of import(...).then: builds the options, creates the slider
\* (whose init event runs handleOverflow) and registers the focusin listener
importThen(c) ==
    LET nav == IF c.navOption \/ c.useNav THEN {"Navigation"} ELSE {}
        pag == IF c.variant = "legacy" /\ c.usePagination THEN {"Pagination"} ELSE {}
        n == Emit([c EXCEPT !.import = "resolved", !.modules = nav \cup pag,
                            !.carousel = "live"], "new Swiper")
    IN  Emit([handleOverflow(n) EXCEPT !.events = @ + 1, !.listening = TRUE], "listen")

\* handle.destroy(): carousel?.destroy(), then every recorded unsubscribe
Carousel_destroy(c) ==
    LET d == IF c.carousel = "undefined" THEN c
             ELSE Emit([c EXCEPT !.carousel = "destroyed"], "carousel.destroy")
    IN  [Repeat(LAMBDA x : Emit(x, "unsubscribe"), d, d.events) EXCEPT
            !.listening = FALSE]

handleFocus(c, tabbing) == IF tabbing THEN Emit(c, "slideTo") ELSE c

CarIdle == Carousel("legacy", "none", FALSE, FALSE, FALSE)

CarouselInit ==
    \E variant \in {"legacy", "modal"}, container \in {"node", "child", "none"},
       useNav, usePagination, navOption \in BOOLEAN :
        /\ (variant = "modal" => ~usePagination)
        /\ car = Carousel(variant, container, useNav, usePagination, navOption)

ImportResolves ==
    /\ car.import = "pending"
    /\ car' = importThen(Begin(car, "import.then", NULL))
    /\ UNCHANGED <<ov, fav, vid, mgr, foc, wish, roe, pg>>

\* the chunk cannot be loaded: the promise is rejected and nothing handles it
ImportRejects ==
    /\ car.import = "pending"
    /\ car' = [Begin(car, "import.catch", NULL) EXCEPT !.import = "rejected"]
    /\ UNCHANGED <<ov, fav, vid, mgr, foc, wish, roe, pg>>

CarouselDestroy ==
    /\ car.handle /\ car.destroyCalls < MaxDestroy
    /\ car' = Carousel_destroy(
                 [Begin(car, "destroy", NULL) EXCEPT !.destroyCalls = @ + 1])
    /\ UNCHANGED <<ov, fav, vid, mgr, foc, wish, roe, pg>>

\* the slider reports a breakpoint change
Breakpoint ==
    /\ car.carousel = "live" /\ car.overflowTimers < MaxAsync
    /\ car' = handleOverflow(Begin(car, "breakpoint", NULL))
    /\ UNCHANGED <<ov, fav, vid, mgr, foc, wish, roe, pg>>

OverflowTimeout ==
    /\ car.overflowTimers > 0
    /\ \E needsOverflow \in BOOLEAN :
          car' = [Begin(car, "timeout", needsOverflow) EXCEPT
                     !.overflowTimers = @ - 1, !.hasOverflow = needsOverflow]
    /\ UNCHANGED <<ov, fav, vid, mgr, foc, wish, roe, pg>>

\* focus moves to an element inside a slide
FocusIn ==
    /\ car.listening
    /\ \E tabbing \in BOOLEAN :
          car' = handleFocus(Begin(car, "focusin", tabbing), tabbing)
    /\ UNCHANGED <<ov, fav, vid, mgr, foc, wish, roe, pg>>

CarouselNext ==
    \/ ImportResolves
    \/ ImportRejects
    \/ CarouselDestroy
    \/ Breakpoint
    \/ OverflowTimeout
    \/ FocusIn

PagesSpecInit ==
    /\ ov = OvIdle /\ fav = FavIdle /\ vid = VidIdle /\ mgr = MgrIdle
    /\ foc = FocIdle /\ wish = WishIdle /\ roe = RoeIdle /\ car = CarIdle
    /\ PagesInit

SpecPages == PagesSpecInit /\ [][PagesNext]_vars

CarouselSpecInit ==
    /\ ov = OvIdle /\ fav = FavIdle /\ vid = VidIdle /\ mgr = MgrIdle
    /\ foc = FocIdle /\ wish = WishIdle /\ roe = RoeIdle /\ pg = PgIdle
    /\ CarouselInit

SpecCarousel == CarouselSpecInit /\ [][CarouselNext]_vars

\* the load triggers of one element, without playback
SourceNext ==
    \/ VAttach
    \/ VDetach
    \/ ReadyStateChange
    \/ AfterCallstack
    \/ LoadManualVideos
    \/ SetInitialSource
    \/ VResize
    \/ VResizeTimeout

SourceInit ==
    /\ VideoInit
    /\ ov = OvIdle /\ fav = FavIdle /\ mgr = MgrIdle /\ foc = FocIdle
    /\ wish = WishIdle /\ roe = RoeIdle
    /\ pg = PgIdle /\ car = CarIdle

SpecSource == SourceInit /\ [][SourceNext]_vars

VideoSpecInit ==
    /\ ov = OvIdle /\ fav = FavIdle /\ mgr = MgrIdle
    /\ foc = FocIdle /\ wish = WishIdle /\ roe = RoeIdle
    /\ VideoInit
    /\ pg = PgIdle /\ car = CarIdle

SpecVideo == VideoSpecInit /\ [][VideoNext]_vars

\* every list of at most n sources
RECURSIVE SourceLists(_)
SourceLists(n) ==
    IF n = 0 THEN {<<>>}
    ELSE LET shorter == SourceLists(n - 1)
         IN  shorter \cup {Append(l, m) : l \in {k \in shorter : Len(k) = n - 1},
                                          m \in MediaAttrs}

SelectInit ==
    /\ ov = OvIdle /\ fav = FavIdle /\ mgr = MgrIdle
    /\ foc = FocIdle /\ wish = WishIdle /\ roe = RoeIdle
    /\ \E srcs \in SourceLists(MaxSources), w \in Widths :
          vid = VideoElement(NULL, NULL, FALSE, srcs, NULL, w, "complete")
    /\ pg = PgIdle /\ car = CarIdle

SelectNext ==
    \/ VAttach
    \/ VResize
    \/ VResizeTimeout

SpecSelect == SelectInit /\ [][SelectNext]_vars

ManagerSpecInit ==
    /\ ov = OvIdle /\ fav = FavIdle /\ vid = VidIdle
    /\ foc = FocIdle /\ wish = WishIdle /\ roe = RoeIdle
    /\ ManagerInit
    /\ pg = PgIdle /\ car = CarIdle

SpecManager == ManagerSpecInit /\ [][ManagerNext]_vars

FavSpecInit ==
    /\ ov = OvIdle /\ vid = VidIdle /\ mgr = MgrIdle
    /\ foc = FocIdle /\ wish = WishIdle /\ roe = RoeIdle
    /\ FavInit
    /\ pg = PgIdle /\ car = CarIdle

SpecFav == FavSpecInit /\ [][FavNext]_vars

ListsInit ==
    /\ ov = OvIdle /\ vid = VidIdle /\ mgr = MgrIdle
    /\ foc = FocIdle /\ roe = RoeIdle
    /\ fav = FavIdle /\ WishInit /\ ~wish.hasGrid
    /\ pg = PgIdle /\ car = CarIdle

SpecLists == ListsInit /\ [][ListsNext]_vars

WishSpecInit ==
    /\ ov = OvIdle /\ fav = FavIdle /\ vid = VidIdle /\ mgr = MgrIdle
    /\ foc = FocIdle /\ roe = RoeIdle
    /\ WishInit
    /\ pg = PgIdle /\ car = CarIdle

SpecWishlist == WishSpecInit /\ [][WishNext]_vars

FocusSpecInit ==
    /\ ov = OvIdle /\ fav = FavIdle /\ vid = VidIdle /\ mgr = MgrIdle
    /\ wish = WishIdle /\ roe = RoeIdle
    /\ FocusInit
    /\ pg = PgIdle /\ car = CarIdle

SpecFocus == FocusSpecInit /\ [][FocusNext]_vars

ReloadSpecInit ==
    /\ ov = OvIdle /\ fav = FavIdle /\ vid = VidIdle /\ mgr = MgrIdle
    /\ foc = FocIdle /\ wish = WishIdle
    /\ ReloadInit
    /\ pg = PgIdle /\ car = CarIdle

SpecReload == ReloadSpecInit /\ [][ReloadNext]_vars

Init ==
    /\ OvInit /\ fav = FavIdle /\ vid = VidIdle /\ mgr = MgrIdle
    /\ foc = FocIdle /\ wish = WishIdle /\ roe = RoeIdle
    /\ pg = PgIdle /\ car = CarIdle

Next ==
    \/ Attach
    \/ Detach
    \/ CallOpen
    \/ CallClose
    \/ ExternalSetAttribute
    \/ ExternalRemoveAttribute
    \/ KeyUp
    \/ Click
    \/ ToggleClick
    \/ ThemeEditorEvent
    \/ GeolocationRecommendation
    \/ TrapDeactivate

Spec == Init /\ [][Next]_vars

(***************************************************************************)
(* Properties of the overlay family                                        *)
(***************************************************************************)
\* effects of exactly one transition to open / to closed
OpensOnce(t) ==
    /\ Count(t, "disableBodyScroll") = 1 /\ Count(t, "onOpen") = 1
    /\ Count(t, "overlay:open") = 1
    /\ Count(t, "enableBodyScroll") = 0 /\ Count(t, "onClose") = 0
    /\ Count(t, "overlay:close") = 0

ClosesOnce(t) ==
    /\ Count(t, "enableBodyScroll") = 1 /\ Count(t, "onClose") = 1
    /\ Count(t, "overlay:close") = 1
    /\ Count(t, "disableBodyScroll") = 0 /\ Count(t, "onOpen") = 0
    /\ Count(t, "overlay:open") = 0

NoOverlayEvent(t) == Count(t, "overlay:open") = 0 /\ Count(t, "overlay:close") = 0

\* C1: on an attached overlay the attribute is present after open() and
\* absent after close(), and a call dispatches overlay:open (overlay:close)
\* once if it moved the overlay from closed to open (open to closed) and not
\* at all otherwise.
C1_EventsPerTransition ==
    [][(ov.attached /\ ov'.last \in {"open", "close"}) =>
          /\ (ov'.last = "open" => isOpen(ov'))
          /\ (ov'.last = "close" => ~isOpen(ov'))
          /\ Count(ov'.trace, "overlay:open") = (IF ~isOpen(ov) /\ isOpen(ov') THEN 1 ELSE 0)
          /\ Count(ov'.trace, "overlay:close") = (IF isOpen(ov) /\ ~isOpen(ov') THEN 1 ELSE 0)]_vars

\* an attached overlay that close() has just moved from open to closed
C1_Witness ==
    /\ ov.attached /\ ov.last = "close" /\ ~isOpen(ov)
    /\ Count(ov.trace, "overlay:close") = 1

\* C2: open() on an open overlay and close() on a closed overlay have no
\* effect at all: no event, no scroll lock or unlock, no hook, and the
\* attribute keeps its value.
C2_Idempotent ==
    [][((ov'.last = "open" /\ isOpen(ov)) \/ (ov'.last = "close" /\ ~isOpen(ov))) =>
          /\ ov'.trace = <<>>
          /\ ov'.open = ov.open
          /\ ov'.locked = ov.locked
          /\ ov'.focusTrap = ov.focusTrap]_vars

\* open() was called on an overlay whose attribute already read "true"
C2_Witness == ov.last = "open" /\ ov.open = "true" /\ ov.trace = <<>>

\* C3: outside code adding (removing) the attribute has the effects of
\* open() (close()), each once; writing a value to a present attribute has
\* no effect.
C3_AttributeRoutesThroughHooks ==
    [][/\ (ov'.last = "setAttribute" /\ ~isOpen(ov)) =>
             /\ OpensOnce(ov'.trace)
             /\ ov'.trace = open(Begin(ov, "open", NULL)).trace
             /\ ov'.locked = open(Begin(ov, "open", NULL)).locked
             /\ ov'.focusTrap = open(Begin(ov, "open", NULL)).focusTrap
       /\ (ov'.last = "removeAttribute" /\ isOpen(ov)) =>
             /\ ClosesOnce(ov'.trace)
             /\ ov'.trace = close(Begin(ov, "close", NULL)).trace
             /\ ov'.locked = close(Begin(ov, "close", NULL)).locked
             /\ ov'.focusTrap = close(Begin(ov, "close", NULL)).focusTrap
       /\ (ov'.last = "open" /\ ~isOpen(ov)) => OpensOnce(ov'.trace)
       /\ (ov'.last = "close" /\ isOpen(ov)) => ClosesOnce(ov'.trace)
       /\ (ov'.last = "setAttribute" /\ isOpen(ov)) =>
             /\ ov'.trace = <<>>
             /\ ov'.locked = ov.locked
             /\ ov'.focusTrap = ov.focusTrap]_vars

\* outside code has just added the attribute to a closed overlay
C3_Witness == ov.last = "setAttribute" /\ ov.arg = "true" /\ OpensOnce(ov.trace)

\* C4: detaching an open overlay leaves it closed and unlocked with one
\* overlay:close; once detached, no Escape keyup, click, toggle click or
\* theme-editor event changes the attribute or dispatches an overlay event.
C4_TeardownRemovesListeners ==
    [][/\ (ov'.last = "disconnectedCallback" /\ isOpen(ov)) =>
             /\ ~isOpen(ov') /\ ~ov'.locked
             /\ Count(ov'.trace, "overlay:close") = 1
       /\ (~ov.attached /\ ov.attachCount > 0
             /\ ov'.last \in {"keyup", "click", "toggleClick", "themeEditor"}) =>
             /\ ov'.open = ov.open
             /\ NoOverlayEvent(ov'.trace)]_vars

\* C5: the cleanup function of every delegated-click registration has run
\* exactly once when the element is detached, and never more than once.
C5_CleanupExactlyOnce ==
    \A i \in DOMAIN ov.delegates :
        /\ ov.delegates[i].cleanups <= 1
        /\ (~ov.attached => ov.delegates[i].cleanups = 1)

\* C6: on an attached modal-dialog the focus trap is active exactly when
\* the attribute is present.
C6_TrapActiveIffOpen ==
    (ov.kind = "modal-dialog" /\ ov.attached) => (ov.focusTrap = "active" <=> isOpen(ov))

\* C7: on an attached open modal with a content element a click outside
\* that element closes the modal, leaving the trap inactive and scroll
\* unlocked; a click inside the content element leaves it open.
C7_OutsideClickCloses ==
    [][(ov.kind # "base-overlay" /\ ov.attached /\ ov.hasContent /\ isOpen(ov)
          /\ ov'.last = "click") =>
          /\ (ov'.arg # "content" =>
                 ~isOpen(ov') /\ ov'.focusTrap # "active" /\ ~ov'.locked)
          /\ (ov'.arg = "content" => isOpen(ov'))]_vars

\* C8: a base overlay registers no click listener for dismissal and no
\* click on it changes anything; a modal has the listener whenever it is
\* attached, whatever its configuration, and a click on the modal itself
\* dismisses it.
C8_OutsideClickPolicy ==
    [][/\ (ov.kind = "base-overlay") =>
             /\ ov'.clickListeners = 0
             /\ (ov'.last = "click" =>
                    ov'.open = ov.open /\ ov'.locked = ov.locked /\ ov'.trace = <<>>)
       /\ (ov.kind # "base-overlay" /\ ov'.attached) => ov'.clickListeners >= 1
       /\ (ov.kind # "base-overlay" /\ ov.attached /\ isOpen(ov) /\ ov.hasContent
             /\ ov'.last = "click" /\ ov'.arg = "this") => ~isOpen(ov')]_vars

\* an attached open base overlay with a content element was clicked on
C8_Witness ==
    /\ ov.kind = "base-overlay" /\ ov.attached /\ ov.hasContent /\ isOpen(ov)
    /\ ov.last = "click" /\ ov.arg = "this"

\* C9: deactivating the trap of an open modal closes the modal; close(),
\* removal of the attribute, trap deactivation and destroy each end an open
\* modal closed with one overlay:close, one onClose and at most one trap
\* deactivation.
C9_TrapDeactivationCloses ==
    [][(ov.kind # "base-overlay" /\ isOpen(ov)) =>
          /\ (ov'.last \in {"close", "removeAttribute", "focusTrap.deactivate",
                            "disconnectedCallback"} => ~isOpen(ov'))
          /\ (~isOpen(ov') =>
                 /\ Count(ov'.trace, "overlay:close") = 1
                 /\ Count(ov'.trace, "onClose") = 1
                 /\ Count(ov'.trace, "focusTrap.deactivate") <= 1)]_vars

\* the trap of an open modal-dialog was deactivated and the modal closed
C9_Witness ==
    /\ ov.kind = "modal-dialog" /\ ov.last = "focusTrap.deactivate" /\ ~isOpen(ov)
    /\ Count(ov.trace, "overlay:close") = 1

(***************************************************************************)
(* Properties of the favorites store                                       *)
(***************************************************************************)
\* C10: when an item was added and the same item was removed next, the
\* persisted list and the displayed count are what they were before the
\* item was added.
C10_FavoritesRoundTrip ==
    (/\ Len(fav.log) = 2
     /\ fav.log[1].op = "add" /\ fav.log[2].op = "remove"
     /\ fav.log[1].item = fav.log[2].item) =>
        /\ fetchFavorites(fav.storage) = fetchFavorites(fav.log[1].storage)
        /\ fav.count = fav.log[1].count

(***************************************************************************)
(* Responsive video: source selection                                      *)
(***************************************************************************)
\* the least member of a non-empty set of indices
First(S) == CHOOSE i \in S : \A j \in S : i <= j

\* the priority as stated: the sources whose max-width bound the width
\* satisfies, else those whose min-width bound it satisfies, else those
\* without a breakpoint, else all; of these the first declared
Priority(srcs, w) ==
    LET all == 1..Len(srcs)
        maxOk == {i \in all : srcs[i].max /\ w <= srcs[i].num}
        minOk == {i \in all : srcs[i].min /\ w >= srcs[i].num}
        plain == {i \in all : ~srcs[i].has}
    IN  IF maxOk # {} THEN First(maxOk)
        ELSE IF minOk # {} THEN First(minOk)
        ELSE IF plain # {} THEN First(plain)
        ELSE 1

MobileDesktop == <<MaxWidth(749), MinWidth(750)>>

\* C11: the active source is the one the stated priority names (first
\* satisfied max-width source, else first satisfied min-width source, else
\* the source without breakpoint, else the first declared); with sources
\* [max 749, min 750] width 500 selects the max-width source and width 1000
\* the min-width source; and the source the element loads on attach and
\* after a debounced resize is that source.
C11_SourcePriority ==
    (vid.attached /\ Len(vid.sources) > 0) =>
        /\ getActiveSource(vid) = Priority(vid.sources, vid.width)
        /\ (vid.sources = MobileDesktop /\ vid.width = 500 => getActiveSource(vid) = 1)
        /\ (vid.sources = MobileDesktop /\ vid.width = 1000 => getActiveSource(vid) = 2)
        /\ (vid.last \in {"connectedCallback", "resizeTimeout"} =>
                vid.currentSource = Url(Priority(vid.sources, vid.width)))

\* a resize from 500 to 1000 has switched [max 749, min 750] to the
\* min-width source
C11_Witness ==
    /\ vid.attached /\ vid.sources = MobileDesktop
    /\ vid.last = "resizeTimeout" /\ vid.width = 1000
    /\ vid.currentSource = Url(2)
    /\ Count(vid.trace, "load") = 1

(***************************************************************************)
(* Responsive video: deferred loading                                      *)
(***************************************************************************)
\* the element defers its sources and its policy's trigger (DOMContentLoaded,
\* window load, loadManualVideos) has not fired yet
Deferred == vid.lazyType # NULL /\ ~vid.triggered

NoSourceSrc == \A i \in 1..Len(vid.srcAttrs) : vid.srcAttrs[i] = NULL

\* C12: while a deferred element waits for its policy's trigger, the video
\* has no src attribute and no poster and no <source> has a src; neither a
\* resize nor a click nor a media event sets one.
C12_AbsentUntilTrigger ==
    Deferred => (vid.videoSrc = NULL /\ ~vid.poster /\ NoSourceSrc)

\* C13: once loadManualVideos has run over a container holding the element,
\* an element whose load policy is manual (what getLoadType read) and that
\* has sources to choose from is loaded: its <source> srcs are restored and
\* its active source is set on the video.
C13_ManualTriggerLoads ==
    (/\ vid.last = "loadManualVideos"
     /\ vid.lazyType = "manual" /\ vid.isEnabled /\ Len(vid.sources) > 0) =>
        /\ vid.isLoaded
        /\ vid.currentSource = Url(getActiveSource(vid))
        /\ \A i \in 1..Len(vid.srcAttrs) : vid.srcAttrs[i] = Url(i)

(***************************************************************************)
(* Responsive video: autoplay                                              *)
(***************************************************************************)
\* C19: with autoplay requested, attemptAutoplay runs at most once (canplay,
\* loadeddata and later reloads together start one attempt); it goes on to
\* play only when the element was visible at that moment, and only after
\* muting the video; a rejected first play() is followed by exactly one
\* retry, so at most two play() calls are issued; a rejected retry ends the
\* attempt and leaves the component enabled.
C19_AutoplayOnce ==
    [][/\ vid'.attempts <= 1
       /\ vid'.autoplayPlays <= 2
       /\ (vid'.attempts > vid.attempts =>
              /\ autoplay(vid) /\ vid'.last \in {"canplay", "loadeddata"}
              /\ vid'.autoplayPc = (IF vid'.arg THEN "wait100" ELSE "idle")
              /\ (vid'.arg => vid'.muted))
       /\ (vid'.autoplayPc # vid.autoplayPc /\ vid'.autoplayPc = "wait100" =>
              vid'.attempts = vid.attempts + 1)
       /\ (vid'.autoplayPlays > vid.autoplayPlays =>
              /\ vid'.last = "autoplayTimer" /\ vid'.attempts = 1
              /\ vid'.autoplayPlays = (IF vid.autoplayPc = "wait100" THEN 1 ELSE 2)
              /\ vid'.autoplayPc =
                    (IF vid.autoplayPc = "wait100" /\ vid'.trace[2] # "resolved"
                     THEN "wait1000" ELSE "done")
              /\ vid'.isEnabled = vid.isEnabled)]_vars

\* both play() calls of the one attempt were refused and the component is
\* still enabled
C19_Witness ==
    /\ vid.attempts = 1 /\ vid.autoplayPlays = 2 /\ vid.autoplayPc = "done"
    /\ vid.last = "autoplayTimer" /\ vid.trace[2] = "NotAllowedError"
    /\ vid.paused /\ vid.muted /\ vid.isEnabled

(***************************************************************************)
(* Responsive video: playback controls                                     *)
(***************************************************************************)
\* the video has something to play: a src of its own or a <source> child
HasSource == videoSrc(vid) # "" \/ Len(vid.sources) > 0

PlayCalls(t) == Count(t, "play") + Count(t, "pause")

\* what a click has to do, given whether togglePlay is owed
ClickContract(owed) ==
    /\ (vid'.arg # "soundToggle" /\ owed) =>
          /\ PlayCalls(vid'.trace) = 1
          /\ Count(vid'.trace, IF vid.paused THEN "play" ELSE "pause") = 1
          /\ (~vid.paused => vid'.paused)
          /\ vid'.muted = vid.muted
    /\ vid'.arg = "soundToggle" =>
          /\ Count(vid'.trace, "toggleSound") = 1
          /\ vid'.muted = ~vid.muted
          /\ PlayCalls(vid'.trace) = 0
          /\ vid'.paused = vid.paused /\ vid'.isPlaying = vid.isPlaying

\* C20 as stated: every click inside the wrapper that is not on the sound
\* toggle calls play() or pause() exactly once; a click on the sound toggle
\* flips muted once and leaves play/pause alone.
C20_ClickTogglesOnce == [][vid'.last = "click" => ClickContract(TRUE)]_vars

\* The click contract restricted to videos that have a src or a <source>
\* child. It holds for an element until it is detached and attached again:
\* the re-attached element stays disabled and its clicks do nothing.
C20_ClickTogglesOnceWithSource == [][vid'.last = "click" => ClickContract(HasSource)]_vars

\* a playing video was unmuted by a click on the sound toggle
C20_Witness ==
    /\ vid.last = "click" /\ vid.arg = "soundToggle"
    /\ ~vid.muted /\ ~vid.paused /\ vid.isPlaying
    /\ vid.trace = <<"toggleSound">>

(***************************************************************************)
(* Viewport playback manager                                               *)
(***************************************************************************)
\* the manager acts on notifications for the element: it is enabled, the
\* element is in its tracking map and, when embedded, its player is known
Handled(m) == m.isEnabled /\ m.tracked /\ (m.type = "html5" \/ m.player)

\* C14: a leave-view notification for a tracked element, native or
\* embedded, that is muted and playing does not pause it, does not set its
\* auto-paused flag and does not start a grace timer.
C14_MutedNeverPaused ==
    [][(mgr'.last = "leave" /\ Handled(mgr) /\ mgr.muted /\ ~mgr.paused) =>
          /\ Count(mgr'.trace, "pause") = 0
          /\ ~mgr'.paused
          /\ mgr'.autoPaused = mgr.autoPaused
          /\ mgr'.timers = mgr.timers /\ ~mgr'.timeoutId]_vars

\* C15: a leave-view notification for an unmuted, playing element (native,
\* in both variants, or YouTube) pauses it, flags it auto-paused and starts
\* its grace timer; an enter-view notification while that timer is pending
\* cancels the timer, calls play once and clears the flag.
C15_PauseThenResume ==
    [][/\ (/\ mgr'.last = "leave" /\ Handled(mgr) /\ mgr.type # "vimeo"
           /\ ~mgr.muted /\ ~mgr.paused) =>
              /\ Count(mgr'.trace, "pause") = 1 /\ mgr'.paused
              /\ mgr'.autoPaused = "true"
              /\ mgr'.timeoutId /\ mgr'.timers = mgr.timers + 1
       /\ (/\ mgr'.last = "enter" /\ Handled(mgr)
           /\ mgr.timeoutId /\ mgr.autoPaused = "true") =>
              /\ ~mgr'.timeoutId /\ mgr'.timers = mgr.timers - 1
              /\ Count(mgr'.trace, "play") = 1
              /\ mgr'.autoPaused = "false"]_vars

\* a native video was resumed on entering view while its grace timer was
\* pending
C15_Witness ==
    /\ mgr.type = "html5" /\ mgr.last = "enter"
    /\ mgr.trace = <<"clearTimeout", "play">>
    /\ mgr.autoPaused = "false" /\ ~mgr.paused /\ ~mgr.muted
    /\ mgr.timers = 0 /\ ~mgr.timeoutId

\* C16: once the grace timer of an auto-paused native element has fired
\* while it was out of view, its flag is cleared and the next enter-view
\* notification does not call play() on it, autoplay-configured or not.
C16_NoResumeAfterGrace ==
    [][/\ (mgr'.last = "timer" => mgr'.autoPaused = "false")
       /\ (/\ mgr'.last = "enter" /\ Handled(mgr) /\ mgr.type = "html5"
           /\ mgr.graceElapsed /\ mgr.inView = "out" /\ mgr.paused) =>
              /\ Count(mgr'.trace, "play") = 0
              /\ mgr'.paused]_vars

\* C17: while the last notification for a tracked element says it is in
\* view, no grace timer is pending for it and it is not paused with its
\* auto-paused flag set.
C17_InViewNoTimer ==
    (Handled(mgr) /\ mgr.inView = "in") =>
        /\ mgr.timers = 0 /\ ~mgr.timeoutId
        /\ ~(mgr.paused /\ mgr.autoPaused = "true")

\* C18: after destroy() the element is not observed, the tracking map and
\* the player map are empty, no grace timer is live, and no later
\* notification makes the manager observe, pause, resume or start a timer.
C18_DestroyIsFinal ==
    mgr.destroyed =>
        /\ ~mgr.observed /\ ~mgr.tracked /\ ~mgr.player
        /\ mgr.timers = 0 /\ mgr.oldTimers = 0
        /\ (mgr.last # "destroy" => mgr.trace = <<>>)

(***************************************************************************)
(* Geolocation modal: dismissal                                            *)
(***************************************************************************)
\* C23: closing the geolocation modal sets the session flag
\* 'geolocation-modal-closed', and once the flag is set no
\* geolocation-recommendation event opens the modal, on the same page or
\* after a new attach.
C23_DismissedStaysClosed ==
    [][ov.kind = "geolocation-modal" =>
          /\ (isOpen(ov) /\ ~isOpen(ov') => ov'.sessionClosed)
          /\ (ov.sessionClosed /\ ov'.last = "geolocation-recommendation" =>
                 (isOpen(ov') => isOpen(ov)))]_vars

(***************************************************************************)
(* Overlay: Escape and the open/close sequence                             *)
(***************************************************************************)
\* everything of the overlay but the record of the last handler
SameOverlay(s, t) == [t EXCEPT !.last = s.last, !.arg = s.arg, !.trace = s.trace] = s

\* C24: an Escape keyup on an attached overlay closes it when it is open,
\* with exactly one overlay:close, and changes nothing when it is closed; a
\* keyup of any other key changes nothing.
C24_EscapeCloses ==
    [][(ov.attached /\ ov'.last = "keyup") =>
          /\ (ov'.arg = "Escape" /\ isOpen(ov) =>
                 ~isOpen(ov') /\ Count(ov'.trace, "overlay:close") = 1)
          /\ (ov'.arg # "Escape" \/ ~isOpen(ov) =>
                 SameOverlay(ov, ov') /\ ov'.trace = <<>>)]_vars

\* Escape closed an open overlay that was attached twice
C24_Witness ==
    /\ ov.last = "keyup" /\ ov.arg = "Escape" /\ ov.attached
    /\ ov.keyupListeners = 2
    /\ Count(ov.trace, "overlay:close") = 1 /\ ~isOpen(ov)

OpenSteps == <<"disableBodyScroll", "onOpen", "overlay:open">>
CloseSteps == <<"enableBodyScroll", "onClose", "overlay:close">>
IsTransitionStep(e) ==
    e \in {"disableBodyScroll", "onOpen", "overlay:open",
           "enableBodyScroll", "onClose", "overlay:close"}

\* C25: a closed-to-open transition locks scroll, runs onOpen and dispatches
\* overlay:open, in that order; an open-to-closed transition unlocks, runs
\* onClose and dispatches overlay:close, in that order; no other step locks
\* or unlocks, so the two alternate starting with a lock, and scroll is
\* locked exactly while the attribute is present.
C25_LockFollowsAttribute ==
    [][/\ (ov'.locked <=> isOpen(ov'))
       /\ SelectSeq(ov'.trace, IsTransitionStep) =
             (IF ~isOpen(ov) /\ isOpen(ov') THEN OpenSteps
              ELSE IF isOpen(ov) /\ ~isOpen(ov') THEN CloseSteps
              ELSE <<>>)
       /\ (Count(ov'.trace, "disableBodyScroll") > 0 => ~ov.locked)
       /\ (Count(ov'.trace, "enableBodyScroll") > 0 => ov.locked)]_vars

\* a modal that was opened and has just been closed again
C25_Witness ==
    /\ ov.kind = "modal-dialog" /\ ov.attached
    /\ SelectSeq(ov.trace, IsTransitionStep) = CloseSteps
    /\ ~ov.locked /\ ~isOpen(ov)

(***************************************************************************)
(* Responsive video: resize                                                *)
(***************************************************************************)
\* C27: a resize notification replaces the pending debounce timer by one of
\* 150 ms and updates nothing itself, so at most one timer is pending; the
\* timer that fires is the one the last notification of the burst started,
\* it runs the update once and leaves no timer behind; destroy cancels the
\* pending timer and none fires afterwards.
C27_ResizeDebounced ==
    [][/\ vid'.resizeTimers <= 1
       /\ (vid'.resizeTimers = 1 => vid'.resizeDelay = 150 /\ vid'.resizeTimeout)
       /\ (vid'.last = "resize" /\ vid.isEnabled =>
              /\ vid'.resizeTimers = 1
              /\ vid'.trace = <<>>
              /\ vid'.currentSource = vid.currentSource /\ vid'.videoSrc = vid.videoSrc)
       /\ (vid'.last = "resizeTimeout" =>
              /\ vid.resizeTimers = 1 /\ vid'.resizeTimers = 0
              /\ \E ok \in PlayOutcomes :
                    vid' = updateSourceBasedOnViewport(
                              [Begin(vid, "resizeTimeout", NULL)
                                  EXCEPT !.resizeTimers = 0, !.resizeTimeout = FALSE], ok)
              /\ Count(vid'.trace, "load") <= 1)
       /\ (vid'.last = "disconnectedCallback" => vid'.resizeTimers = 0)
       /\ (~vid.isEnabled => vid'.resizeTimers = 0 /\ vid'.last # "resizeTimeout")]_vars

\* the timer of a burst fired and swapped the source
C27_Witness ==
    /\ vid.last = "resizeTimeout" /\ vid.resizeTimers = 0
    /\ Count(vid.trace, "load") = 1 /\ vid.width = 500

\* everything of the video but the record of the last handler and its timer
SameVideo(s, t) ==
    [t EXCEPT !.last = s.last, !.arg = s.arg, !.trace = s.trace,
              !.resizeTimers = s.resizeTimers, !.resizeTimeout = s.resizeTimeout] = s

\* the source the viewport selects is not the one the video holds
SelectsOther(v) == getActiveSource(v) # 0 /\ sourceSrc(v, getActiveSource(v)) # v.currentSource

\* C28: when the debounce timer finds that the viewport selects a different
\* source, the video's src becomes that source's, the video is hidden (the
\* poster shows) and is loaded once, and play() is called exactly when the
\* video was playing before; when the same source is selected nothing
\* changes; a hidden video is shown again only by its canplay event.
C28_SourceSwap ==
    [][/\ (vid'.last = "resizeTimeout" /\ vid.isEnabled /\ SelectsOther(vid) =>
              /\ vid'.videoSrc = sourceSrc(vid, getActiveSource(vid))
              /\ vid'.currentSource = vid'.videoSrc
              /\ ~vid'.videoShown
              /\ Count(vid'.trace, "load") = 1
              /\ Count(vid'.trace, "play") = (IF vid.paused THEN 0 ELSE 1))
       /\ (vid'.last = "resizeTimeout" /\ ~SelectsOther(vid) =>
              SameVideo(vid, vid') /\ vid'.trace = <<>>)
       /\ (~vid.videoShown /\ vid'.videoShown => vid'.last = "canplay")]_vars

\* a playing video was swapped to the mobile source and asked to play again
C28_Witness ==
    /\ vid.last = "resizeTimeout" /\ vid.isLoaded
    /\ vid.trace = <<"load", "play">> /\ ~vid.videoShown
    /\ vid.videoSrc = Url(1) /\ vid.sources = MobileDesktop

(***************************************************************************)
(* Viewport manager: tracking                                              *)
(***************************************************************************)
\* everything of the manager but the record of the last handler
SameManager(s, t) == [t EXCEPT !.last = s.last, !.arg = s.arg, !.trace = s.trace] = s

\* C29: a record is written for the element only while it has none, so the
\* map never holds a second record for it and an existing record is never
\* replaced; observeNewVideos on a tracked element leaves its record (kind,
\* provider, pending grace timer) and everything else as it was; a rescan
\* that follows a rescan changes nothing.
C29_TrackedOnce ==
    [][/\ (Count(mgr'.trace, "observe") > 0 =>
              ~mgr.tracked /\ mgr'.tracked /\ Count(mgr'.trace, "observe") = 1)
       /\ (mgr'.last = "observeNewVideos" /\ mgr.tracked =>
              /\ mgr'.tracked /\ mgr'.type = mgr.type /\ mgr'.hasProvider = mgr.hasProvider
              /\ mgr'.timeoutId = mgr.timeoutId /\ mgr'.timers = mgr.timers
              /\ SameManager(mgr, mgr') /\ mgr'.trace = <<>>)
       /\ (mgr'.last = "observeNewVideos" /\ mgr.last = "observeNewVideos" =>
              SameManager(mgr, mgr') /\ mgr'.trace = <<>>)]_vars

\* a rescan found the element tracked with its grace timer pending
C29_Witness ==
    /\ mgr.last = "observeNewVideos" /\ mgr.trace = <<>>
    /\ mgr.tracked /\ mgr.timeoutId /\ mgr.timers = 1

(***************************************************************************)
(* Viewport manager: embedded players                                      *)
(***************************************************************************)
Embedded(m) == m.variant = "full" /\ m.type # "html5"

AllPauses(m) == m.pauses + m.oldPauses

AllTimers(m) == m.timers + m.oldTimers

\* C30: for an embedded player a notification that arrives before its
\* player-ready registration changes nothing; after it, a leave-view
\* notification pauses and flags a YouTube player and starts its timer
\* exactly when the player is playing or buffering, and for Vimeo only asks
\* getPaused(); pause() is sent to a Vimeo player only by a getPaused()
\* answer of false; the flag is set and a timer started only by those
\* pauses, so a player found paused is not flagged and gets no timer.
C30_EmbeddedPolledFirst ==
    [][Embedded(mgr) =>
          /\ (mgr'.last \in {"enter", "leave"} /\ ~mgr.player =>
                 /\ SameManager(mgr, [mgr' EXCEPT !.inView = mgr.inView])
                 /\ mgr'.trace = <<>>)
          /\ (mgr'.last = "leave" /\ Handled(mgr) /\ mgr.player /\ mgr.type = "youtube" =>
                 IF ~mgr.paused
                 THEN /\ mgr'.trace = <<"pause", "setTimeout">>
                      /\ mgr'.paused /\ mgr'.autoPaused = "true"
                      /\ mgr'.timers = mgr.timers + 1
                 ELSE /\ mgr'.trace = <<>>
                      /\ mgr'.autoPaused = mgr.autoPaused
                      /\ mgr'.timers = mgr.timers /\ mgr'.timeoutId = mgr.timeoutId)
          /\ (mgr'.last = "leave" /\ Handled(mgr) /\ mgr.player /\ mgr.type = "vimeo" =>
                 /\ mgr'.trace = <<"getPaused">>
                 /\ mgr'.checks = mgr.checks + 1
                 /\ mgr'.paused = mgr.paused /\ mgr'.autoPaused = mgr.autoPaused
                 /\ AllPauses(mgr') = AllPauses(mgr) /\ AllTimers(mgr') = AllTimers(mgr))
          /\ (mgr'.last = "getPaused.then" =>
                 /\ AllPauses(mgr') = AllPauses(mgr) + (IF mgr.paused THEN 0 ELSE 1)
                 /\ Count(mgr'.trace, "pause") = (IF mgr.paused THEN 0 ELSE 1)
                 /\ mgr'.autoPaused = mgr.autoPaused
                 /\ AllTimers(mgr') = AllTimers(mgr))
          /\ (AllPauses(mgr') > AllPauses(mgr) =>
                 mgr'.last = "getPaused.then" /\ ~mgr.paused)
          /\ ((mgr'.autoPaused = "true" /\ mgr.autoPaused # "true")
                \/ AllTimers(mgr') > AllTimers(mgr) =>
                 \/ mgr'.last = "leave" /\ mgr.type = "youtube" /\ ~mgr.paused
                 \/ mgr'.last = "pause.then" /\ AllPauses(mgr) > 0)]_vars

\* a registered YouTube player that was paused left view and was left alone
C30_Witness ==
    /\ mgr.type = "youtube" /\ mgr.player /\ mgr.tracked /\ mgr.isEnabled
    /\ mgr.last = "leave" /\ mgr.paused /\ mgr.trace = <<>>
    /\ mgr.autoPaused = "unset" /\ mgr.timers = 0

(***************************************************************************)
(* Favorites and wishlist: uniqueness                                      *)
(***************************************************************************)
\* the (handle, variantId) pair of an entry; "" for an entry without variant
Pair(item) == <<item.handle, IF "variantId" \in DOMAIN item THEN item.variantId ELSE "">>

UniquePairs(list) == \A i, j \in 1..Len(list) : Pair(list[i]) = Pair(list[j]) => i = j

\* C21: neither the persisted favorites nor the persisted wishlist holds two
\* entries with the same (handle, variantId) pair.
C21_UniquePairs ==
    /\ UniquePairs(fetchFavorites(fav.storage))
    /\ UniquePairs(getWishlist(wish))

\* after clicks on both kinds of button each list holds two variants of one
\* product
C21_Witness ==
    /\ fav.log # <<>> /\ Len(fetchFavorites(fav.storage)) = 3
    /\ fetchFavorites(fav.storage)[1].handle = fetchFavorites(fav.storage)[2].handle
    /\ Len(getWishlist(wish)) = 2 /\ wish.last = "add"
    /\ getWishlist(wish)[1].handle = getWishlist(wish)[2].handle

(***************************************************************************)
(* ReloadOnEvent: failures                                                 *)
(***************************************************************************)
\* C22: a reload whose fetch was rejected or whose body could not be parsed
\* leaves the content as it was, neither unloads nor loads the section
\* instance, and dispatches no reload-on-event:loaded.
C22_FailedReloadSkipped ==
    [][(roe'.last = "reload" /\ roe'.arg[1] \in {"rejected", "invalidJSON"}) =>
          /\ roe'.content = roe.content
          /\ roe'.instance = roe.instance
          /\ Count(roe'.trace, "unload") = 0
          /\ Count(roe'.trace, "load") = 0
          /\ Count(roe'.trace, "reload-on-event:loaded") = 0]_vars

(***************************************************************************)
(* Modal: initial focus                                                    *)
(***************************************************************************)
Holds(doc, k) == \E i \in 1..Len(doc) : doc[i] = k

\* C26: an opening modal focuses its [autofocus] element if it has one,
\* else its .modal__close, else its .modal__content, else the modal itself,
\* whatever the document order of these elements.
C26_FocusPriority ==
    foc.last = "activate" =>
        foc.focus = (IF Holds(foc.doc, "autofocus") THEN "autofocus"
                     ELSE IF Holds(foc.doc, "close") THEN "close"
                     ELSE IF Holds(foc.doc, "content") THEN "content"
                     ELSE "root")

(***************************************************************************)
(* Geolocation modal: closing                                              *)
(***************************************************************************)
\* C31: closing an attached geolocation modal whose trap is active leaves
\* the trap inactive and aria-modal removed, as closing a plain modal does,
\* and records the dismissal.
C31_GeolocationClosesLikeModal ==
    [][(/\ ov.kind = "geolocation-modal" /\ ov.attached
        /\ isOpen(ov) /\ ov.focusTrap = "active" /\ ~isOpen(ov')) =>
          /\ ov'.sessionClosed
          /\ ov'.focusTrap # "active"
          /\ ~ov'.ariaModal]_vars

(***************************************************************************)
(* ReloadOnEvent: overlapping reloads                                      *)
(***************************************************************************)
Applied(r) == r.last = "reload" /\ r.arg = <<"html", "self">>

\* C32: a waiting reload ends only when its own response arrives; every
\* response that carries the element is spliced in on arrival, whether or
\* not a later trigger's response was applied before and whether or not the
\* element is still attached, so the content shown is that of the response
\* that arrived last; and each such reload dispatches its own
\* reload-on-event:loaded when the new content holds the container.
C32_LastArrivalWins ==
    [][/\ (roe.pending # roe'.pending /\ roe'.last # "handleChange" =>
              /\ roe'.last = "reload"
              /\ roe'.pending = roe.pending \ {roe'.request}
              /\ roe'.request \in roe.pending)
       /\ (Applied(roe') =>
              /\ roe'.content = roe'.request
              /\ Count(roe'.trace, "unload") = 1
              /\ Count(roe'.trace, "reload-on-event:loaded") =
                    (IF roe'.innerContainer THEN 1 ELSE 0))
       /\ (~Applied(roe') => roe'.content = roe.content)]_vars

\* the response of the first trigger arrived after that of the second, and
\* after the element was detached, and is what the element shows
C32_Witness ==
    /\ Applied(roe) /\ ~roe.attached
    /\ roe.reloads = 2 /\ roe.pending = {} /\ roe.content = 1
    /\ Count(roe.trace, "reload-on-event:loaded") = 1

(***************************************************************************)
(* Wishlist: buttons and the toggle                                        *)
(***************************************************************************)
Clicked(w) == w.last \in {"add", "remove"}

\* C33: a click on a wishlist button toggles the membership of the button's
\* pair once and dispatches one shopify-wishlist:updated, however often the
\* buttons were set up before; afterwards the button carries the active
\* class exactly when the wishlist contains its pair.
C33_ClickTogglesOnce ==
    [][Clicked(wish') /\ wish' # wish =>
          /\ wishlistContains(wish', wish'.arg.handle, wish'.arg.variantId)
                # wishlistContains(wish, wish'.arg.handle, wish'.arg.variantId)
          /\ Count(wish'.trace, "shopify-wishlist:updated") = 1
          /\ (wish'.arg \in wish'.active <=>
                 wishlistContains(wish', wish'.arg.handle, wish'.arg.variantId))]_vars

PairsOf(list) == {list[i] : i \in 1..Len(list)}

\* C34: updateWishlist applied twice with the same pair restores the set of
\* pairs; after an update the key is absent exactly when the wishlist is
\* empty and otherwise holds the serialized list the call returned;
\* resetWishlist leaves the key absent.
C34_UpdateIsToggle ==
    /\ \A x \in WishItems :
          LET once == updateWishlist(wish, x.handle, x.variantId)
              twice == updateWishlist(once, x.handle, x.variantId)
          IN  /\ PairsOf(getWishlist(twice)) = PairsOf(getWishlist(wish))
              /\ PairsOf(getWishlist(once)) # PairsOf(getWishlist(wish))
              /\ (once.storage.present <=> Len(once.returned) > 0)
              /\ (once.storage.present => once.storage.json = stringifyList(once.returned))
              /\ parseList(stringifyList(once.returned)) = once.returned
    /\ (Clicked(wish) =>
          /\ (wish.storage.present <=> Len(wish.returned) > 0)
          /\ (wish.storage.present => wish.storage.json = stringifyList(wish.returned))
          /\ getWishlist(wish) = wish.returned)
    /\ ~resetWishlist(wish).storage.present

\* a click removed the last pair and with it the key
C34_Witness ==
    /\ wish.last = "remove" /\ wish.listeners = 1
    /\ ~wish.storage.present /\ wish.returned = <<>>

(***************************************************************************)
(* Responsive video: re-attachment and the initial source                  *)
(***************************************************************************)
\* C35: an element that was detached and is attached again is enabled, has
\* its click listeners and its resize observer, and has loaded its source
\* when its policy is to load at once.
C35_ReattachRestores ==
    [][(vid'.last = "connectedCallback" /\ vid.attachCount >= 1) =>
          /\ vid'.isEnabled
          /\ vid'.listeners /\ vid'.resizeObserver
          /\ (vid'.lazyType = NULL /\ Len(vid'.sources) > 0 => vid'.isLoaded)]_vars

LoadTriggers == {"afterCallstack", "loadManualVideos", "DOMContentLoaded", "load",
                 "connectedCallback", "setInitialSource"}

\* C39: once the source has been loaded no load trigger changes the video's
\* src or currentSource, and a trigger that runs on a destroyed element sets
\* no source.
C39_InitialSourceOnce ==
    [][(vid'.last \in LoadTriggers /\ (vid.isLoaded \/ ~vid.isEnabled)) =>
          /\ vid'.videoSrc = vid.videoSrc
          /\ vid'.currentSource = vid.currentSource
          /\ vid'.srcAttrs = vid.srcAttrs
          /\ Count(vid'.trace, "load") = 0]_vars

\* a direct call on an element whose source was loaded and whose viewport
\* has since changed to one that selects another source
C39_Witness ==
    /\ vid.last = "setInitialSource" /\ vid.isLoaded /\ vid.isEnabled
    /\ getActiveSource(vid) # 0
    /\ vid.currentSource # sourceSrc(vid, getActiveSource(vid))

\* the deferred callback of a dom-policy element ran after destroy
C39_WitnessDestroyed ==
    /\ vid.last = "afterCallstack" /\ ~vid.isEnabled /\ ~vid.attached
    /\ vid.lazyType = "dom" /\ ~vid.isLoaded /\ vid.currentSource = NULL

(***************************************************************************)
(* Viewport playback manager: the grace timer of a tracked element         *)
(***************************************************************************)
\* C38: a tracked element has at most one pending grace timer, timeoutId
\* is set exactly when that timer is pending, and a pending grace timer
\* implies that the element is flagged auto-paused.
C38_OneGraceTimer ==
    mgr.tracked =>
        /\ mgr.timers <= 1
        /\ (mgr.timeoutId <=> mgr.timers = 1)
        /\ (mgr.timers > 0 => mgr.autoPaused = "true")

(***************************************************************************)
(* Overlay pages and carousel                                              *)
(***************************************************************************)
ShowPageSteps == pg'.last = "showPage" \/ (pg'.last = "click" /\ pg'.inside)

\* C37: after showPage(page) every element whose data-page equals page is
\* visible and every other data-page element is hidden; when no element has
\* that value it throws and the visibility of all pages is unchanged.
C37_ShowPage ==
    [][ShowPageSteps =>
          IF \E i \in 1..Len(pg.pages) : pg.pages[i].page = pg'.arg
          THEN /\ ~pg'.thrown
               /\ \A i \in 1..Len(pg.pages) :
                      pg'.pages[i].hidden = (pg.pages[i].page # pg'.arg)
          ELSE pg'.thrown /\ pg'.pages = pg.pages]_vars

\* C37 (amended): after showPage(page) the first element in document order
\* whose data-page equals page is visible and every other data-page element,
\* later elements with the same value included, is hidden; when no element
\* has that value it throws and the visibility of all pages is unchanged.
C37_ShowFirstPage ==
    [][ShowPageSteps =>
          LET first == querySelectorPage(pg.pages, pg'.arg)
          IN  IF first # 0
              THEN /\ ~pg'.thrown
                   /\ Len(pg'.pages) = Len(pg.pages)
                   /\ \A i \in 1..Len(pg.pages) :
                          /\ pg'.pages[i].page = pg.pages[i].page
                          /\ pg'.pages[i].hidden = (i # first)
              ELSE pg'.thrown /\ pg'.pages = pg.pages]_vars

\* a page that was hidden is shown while a later element with the same
\* data-page value is hidden again
C37_Witness ==
    /\ pg.last = "click" /\ pg.inside /\ pg.defaultPrevented /\ ~pg.thrown
    /\ \E i, j \in 1..Len(pg.pages) :
          /\ i < j /\ pg.pages[i].page = pg.arg /\ pg.pages[j].page = pg.arg
          /\ ~pg.pages[i].hidden /\ pg.pages[j].hidden
    /\ \E k \in 1..Len(pg.pages) : pg.pages[k].page # pg.arg /\ pg.pages[k].hidden

\* C36: once destroy() of a handle has been called, the node has no live
\* slider instance and no focusin listener, whether the import resolved
\* before or after the call.
C36_DestroyedStaysClean ==
    car.destroyCalls > 0 => (car.carousel # "live" /\ ~car.listening)

====
